---- MODULE Spec2Model ----
(***************************************************************************)
(* A model of the revault-demo stakeholder engine (revault/vault.py) and    *)
(* of the transaction helpers it uses (revault/transactions/__init__.py).  *)
(*                                                                         *)
(* One engine (class Vault) is modelled with its threads: the funds        *)
(* poller, the spend poller, the signature-fetcher generation started by   *)
(* update_all_signatures, and the caller's thread (getnewaddress, stop).   *)
(* The bitcoind node, the sig-server and the other stakeholders are the    *)
(* environment.                                                            *)
(***************************************************************************)
EXTENDS Integers, Sequences, FiniteSets, TLC

(***************************************************************************)
(* Bounds of the model.                                                    *)
(***************************************************************************)
\* Funding transactions the environment may create.
MaxTx == 2

(***************************************************************************)
(* Program constants.                                                      *)
(***************************************************************************)
\* assert len(xpubs) == 4
NStakeholders == 4
Stakeholders == 1..NStakeholders

\* Python's None, and the two sighash flag bytes a signature may end with.
None == "None"
SIGHASH_ALL == "ALL"
ALL_ANYONECANPAY == "ACP"
Flags == {SIGHASH_ALL, ALL_ANYONECANPAY}

\* The four pre-signed transactions of a vault (names of their sig tables).
EMER == "emergency_sigs"
UNVAULT == "unvault_sigs"
CANCEL == "cancel_sigs"
UNEMER == "unvault_emer_sigs"
Kinds == {EMER, UNVAULT, CANCEL, UNEMER}

\* Thread roles of the signature fetchers, by target function.
R_EMER == "update_emergency_signatures"
R_REVOC == "update_unvault_revocations"
R_UNVAULT == "update_unvault_transaction"

\* The holder of a lock is a thread id <<generation, vault, role>>.
FREE == <<0, 0, "free">>

VARIABLES
    stk_id,             \* self.keychains.index(None) + 1
    current_index, current_gen_index, max_index, index_treshold,
    vault_addresses,    \* self.vault_addresses (derivation indexes watched)
    handed_out,         \* indexes of the addresses getnewaddress returned
    vault,              \* the vault dicts ever created, by allocation number
    vaults,             \* self.vaults: sequence of allocation numbers
    vaults_lock,        \* FREE or the thread holding self.vaults_lock
    funds_poller_stop, update_sigs_stop, spends_poller_stop, stopped,
    bitcoind_open,
    caller,             \* the thread that called stop()
    poller,             \* the funds_poller thread
    master,             \* the update_sigs_thread (update_all_signatures)
    fetchers,           \* the threads started by update_all_signatures
    spender,            \* the spends_poller thread
    acked_spends,
    sigserver,          \* signatures stored on the sig-server
    spends,             \* spend requests and decisions on the sig-server
    utxos,              \* the node's UTXO set (wallet view, minconf=0)
    funded,             \* number of funding transactions created so far
    sent,               \* transactions handed to sendrawtransaction
    rejecting,          \* the node's mempool refuses new transactions
    height,             \* the node's chain tip (blocks generated so far)
    coins,              \* the node's coins with the scripts that lock them
    bench,              \* the transaction being built, signed and formed
    verdict,            \* the node's answer to the last broadcast of it
    trader              \* the user's thread inside initiate_spend,
                        \* accept_spend or complete_spend

vars == <<stk_id, current_index, current_gen_index, max_index, index_treshold,
          vault_addresses, handed_out, vault, vaults, vaults_lock,
          funds_poller_stop, update_sigs_stop, spends_poller_stop, stopped,
          bitcoind_open, caller, poller, master, fetchers, spender,
          acked_spends, sigserver, spends, utxos, funded, sent, rejecting,
          height, coins, bench, verdict, trader>>

idx_vars == <<current_index, current_gen_index, max_index, index_treshold,
              vault_addresses, handed_out>>
stop_vars == <<funds_poller_stop, spends_poller_stop, stopped, bitcoind_open, caller>>
chain_vars == <<utxos, funded, sent, rejecting>>
spend_vars == <<spender, acked_spends, spends>>
bench_vars == <<height, coins, bench, verdict>>

Range(s) == {s[k] : k \in 1..Len(s)}

Perms(S) == {q \in [1..Cardinality(S) -> S] : \A a, b \in 1..Cardinality(S) : q[a] = q[b] => a = b}

(***************************************************************************)
(* Addresses.  An address is the pair of the script kind and, for the      *)
(* scripts built from vault pubkeys, the derivation index of the pubkeys.  *)
(***************************************************************************)
\* self.max_index = current_index + 500
INDEX_WINDOW == 500
\* if self.current_gen_index > self.index_treshold - 20
INDEX_GAP == 20

get_vault_address(index) == <<"vault", index>>
unvault_address(index) == <<"unvault", index>>
emergency_address == <<"emergency", 0>>

\* guess_index: the first index below max_index whose address matches, as a
\* set that is empty when the loop falls through to "return None".
\* (a variant that starts the search at current_index instead of 0)
guess_index_from_current(vault_address, max) ==
    LET hits == {i \in current_index..(max - 1) : get_vault_address(i) = vault_address}
    IN  IF hits = {} THEN {} ELSE {CHOOSE i \in hits : \A j \in hits : i <= j}
guess_index(vault_address, max) ==
    LET hits == {i \in 0..(max - 1) : get_vault_address(i) = vault_address}
    IN  IF hits = {} THEN {} ELSE {CHOOSE i \in hits : \A j \in hits : i <= j}

\* self.vault_addresses only ever receives the addresses of a range
\* [current_index, max_index) that starts inside the indexes it already
\* holds, so the list is kept as the interval lo..(hi - 1) of the indexes
\* whose address it contains (lo = hi: the empty list).
InList(addr, addrs) ==
    addr[1] = "vault" /\ addrs.lo <= addr[2] /\ addr[2] < addrs.hi

\* update_watched_addresses: the addresses of [current_index, max_index) are
\* appended to self.vault_addresses unless already there.
update_watched_addresses(addrs, cur, max) ==
    IF max <= cur THEN addrs
    ELSE IF addrs.lo = addrs.hi THEN [lo |-> cur, hi |-> max]
    ELSE [lo |-> IF cur < addrs.lo THEN cur ELSE addrs.lo,
          hi |-> IF max > addrs.hi THEN max ELSE addrs.hi]

(***************************************************************************)
(* The node: listunspent(minconf=0, addresses).                            *)
(***************************************************************************)
listunspent(addresses) == {u \in utxos : u.addr \in addresses}
\* listunspent(minconf=0, addresses=self.vault_addresses)
listunspent_vaults == {u \in utxos : InList(u.addr, vault_addresses)}

(***************************************************************************)
(* The sig-server: a store (txid, stakeholder id) -> signature.  The txid  *)
(* of a pre-signed transaction is determined by the funding outpoint and   *)
(* the transaction kind.                                                   *)
(***************************************************************************)
TxKey(vr, kind) == <<vr.txid, vr.vout, kind>>

get_signature(key, i) ==
    IF <<key, i>> \in DOMAIN sigserver THEN sigserver[<<key, i>>] ELSE None

send_signature(store, key, i, sig) ==
    [k \in DOMAIN store \cup {<<key, i>>} |->
        IF k = <<key, i>> THEN sig ELSE store[k]]

(***************************************************************************)
(* Signing (transactions/__init__.py): a signature is modelled by the      *)
(* sighash flag byte it ends with.                                         *)
(***************************************************************************)
sign_unvault_tx == SIGHASH_ALL
sign_emergency_vault_tx(sign_all) == IF sign_all THEN SIGHASH_ALL ELSE ALL_ANYONECANPAY
sign_unvault_revault(sign_all) == IF sign_all THEN SIGHASH_ALL ELSE ALL_ANYONECANPAY
sign_cancel_tx(sign_all) == sign_unvault_revault(sign_all)
sign_emer_unvault_tx(sign_all) == sign_unvault_revault(sign_all)

\* The keys of the target fee-rates: sigserver.get_feerate(key, txid) and
\* bitcoind.getfeerate(key).
FEERATE_EMERGENCY == "emergency"
FEERATE_CANCEL == "cancel"

\* create_sign_*: the signature stored in our own slot of the table, the
\* signature returned to be shared on the sig-server, and the key of the
\* fee-rate the template is built for.
create_sign_emergency ==
    [kept |-> sign_emergency_vault_tx(TRUE), shared |-> sign_emergency_vault_tx(FALSE),
     feerate |-> FEERATE_EMERGENCY]
create_sign_unvault ==
    [kept |-> sign_unvault_tx, shared |-> sign_unvault_tx, feerate |-> FEERATE_CANCEL]
create_sign_cancel ==
    [kept |-> sign_cancel_tx(TRUE), shared |-> sign_cancel_tx(FALSE),
     feerate |-> FEERATE_CANCEL]
\* (the kept signature is made without sign_all=True)
create_sign_unvault_emer ==
    [kept |-> sign_emer_unvault_tx(FALSE), shared |-> sign_emer_unvault_tx(FALSE),
     feerate |-> FEERATE_EMERGENCY]

(***************************************************************************)
(* Scripts and transactions (transactions/__init__.py).                    *)
(*                                                                         *)
(* A stack or witness element is a pair <<tag, value>>: <<"num", n>> for a *)
(* number (the empty byte array is the number 0), <<"sig", s>> for a       *)
(* signature, <<"script", s>> for a serialized script, and a key is the    *)
(* pair of its owner's role and slot.  A key pair is named by one value:   *)
(* CKey(privkey).pub of the key <<"stk", 1>> is <<"stk", 1>>.              *)
(* A script is a sequence of elements [op, data], a data push being        *)
(* [op |-> "PUSH", data |-> element]; OP_2, OP_3, OP_4, OP_6 and a CScript *)
(* integer are pushes of numbers.                                          *)
(***************************************************************************)
Num(n) == <<"num", n>>
Op(name) == [op |-> name, data |-> Num(0)]
Push(element) == [op |-> "PUSH", data |-> element]
Pushes(elements) == [i \in 1..Len(elements) |-> Push(elements[i])]

\* The keys of the four stakeholders for a vault, their offline keys, and
\* the key of the cosigning server.
stk_pubkeys == [s \in Stakeholders |-> <<"stk", s>>]
emer_pubkeys == [s \in Stakeholders |-> <<"emer", s>>]
serv_pubkey == <<"srv", 0>>

\* CScript([OP_4, *pubkeys, OP_4, OP_CHECKMULTISIG])
vault_script(pubkeys) ==
    <<Push(Num(4))>> \o Pushes(pubkeys) \o <<Push(Num(4)), Op("OP_CHECKMULTISIG")>>

unvault_script(pub_trader1, pub_trader2, pub1, pub2, pub_server) ==
    <<Push(pub_trader1), Op("OP_CHECKSIG"), Op("OP_SWAP"), Push(pub_trader2),
      Op("OP_CHECKSIG"), Op("OP_ADD"), Op("OP_SWAP"), Push(pub1), Op("OP_CHECKSIG"), Op("OP_ADD"),
      Op("OP_DUP"), Push(Num(3)), Op("OP_EQUAL"), Op("OP_IF"), Op("OP_DROP"),
      Push(pub2), Op("OP_CHECKSIG"), Op("OP_ELSE"), Push(Num(2)), Op("OP_EQUALVERIFY"),
      Push(pub_server), Op("OP_CHECKSIGVERIFY"), Push(Num(6)),
      Op("OP_CHECKSEQUENCEVERIFY"), Op("OP_ENDIF")>>

\* (a variant with a relative locktime one block longer)
emergency_script_longer(pubkeys) ==
    <<Push(Num(4465)), Op("OP_CHECKSEQUENCEVERIFY"), Op("OP_DROP"), Push(Num(4))>>
    \o Pushes(pubkeys) \o <<Push(Num(4)), Op("OP_CHECKMULTISIG")>>
emergency_script(pubkeys) ==
    <<Push(Num(4464)), Op("OP_CHECKSEQUENCEVERIFY"), Op("OP_DROP"), Push(Num(4))>>
    \o Pushes(pubkeys) \o <<Push(Num(4)), Op("OP_CHECKMULTISIG")>>

\* CScript([OP_0, sha256(script)]): the hash is kept as the script it
\* commits to.
P2WSH(script) == [type |-> "p2wsh", script |-> script]
\* CScript([OP_0, Hash160(pubkey)]) and the scriptPubKey of a wallet address.
P2WPKH(pubkey) == [type |-> "p2wpkh", script |-> <<Push(pubkey)>>]
to_scriptPubKey(address) == [type |-> "address", script |-> <<Push(address)>>]

CTxOut(value, scriptPubKey) == [nValue |-> value, scriptPubKey |-> scriptPubKey]

vault_txout(pubkeys, value) == CTxOut(value, P2WSH(vault_script(pubkeys)))
unvault_txout(pubkeys, pub_server, value) ==
    CTxOut(value, P2WSH(unvault_script(pubkeys[1], pubkeys[2], pubkeys[3], pubkeys[4], pub_server)))
emergency_txout(pubkeys, value) == CTxOut(value, P2WSH(emergency_script(pubkeys)))

\* The 32-bit nSequence field is kept as the pair of its bit 31 (the
\* relative-locktime disable flag) and of its 31 low bits.
\* 0xffffffff
SEQUENCE_FINAL == <<1, 2147483647>>
\* 0xfffffffe
SEQUENCE_RBF == <<1, 2147483646>>
nSequence(n) == <<0, n>>

COutPoint(hash, n) == [hash |-> hash, n |-> n]
CTxIn(prevout, sequence) == [prevout |-> prevout, nSequence |-> sequence]
CMutableTransaction(vin, vout, nVersion) ==
    [vin |-> vin, vout |-> vout, nVersion |-> nVersion, wit |-> <<>>]
\* The bench a transaction is built on: its stage (idle, created, formed,
\* sent), its kind, the transaction, and the signatures made for it by the
\* stakeholders of slots 1 to 4 and by the cosigning server (slot COSIGNER).
COSIGNER == NStakeholders + 1
NoSigs == [s \in 1..COSIGNER |-> Num(0)]
NoTx == CMutableTransaction(<<>>, <<>>, 2)
IdleBench == [stage |-> "idle", kind |-> None, tx |-> NoTx, sigs |-> NoSigs]

\* The user's thread before it calls the engine: the function it is in
\* (op), the vault or the txid and the address map it was given, the slot of
\* the peer whose signature it was given, and what it has computed so far.
IdleTrader ==
    [pc |-> "idle", op |-> None, txid |-> 0, v |-> 0, addresses |-> <<>>, peer |-> 0,
     our_sig |-> Num(0), cosig |-> Num(0), spend_tx |-> NoTx, res |-> None]

\* The txid commits to the transaction without its witness.
GetTxid(tx) == [vin |-> tx.vin, vout |-> tx.vout, nVersion |-> tx.nVersion]

\* (a variant that never signals RBF)
create_spend_vault_txout_final(vault_txid, vault_vout, txout, rbf) ==
    CMutableTransaction(<<CTxIn(COutPoint(vault_txid, vault_vout), SEQUENCE_FINAL)>>, <<txout>>, 2)
create_spend_vault_txout(vault_txid, vault_vout, txout, rbf) ==
    LET sequence == IF rbf THEN SEQUENCE_RBF ELSE SEQUENCE_FINAL
    IN  CMutableTransaction(<<CTxIn(COutPoint(vault_txid, vault_vout), sequence)>>, <<txout>>, 2)

create_unvault_tx(vault_txid, vault_vout, pubkeys, pub_server, value) ==
    create_spend_vault_txout(vault_txid, vault_vout,
                             unvault_txout(pubkeys, pub_server, value), FALSE)

create_emergency_vault_tx(vault_txid, vault_vout, value, emer_keys) ==
    create_spend_vault_txout(vault_txid, vault_vout, emergency_txout(emer_keys, value), TRUE)

\* (a variant whose input carries the relative locktime of the spend)
create_unvault_spend_locked(unvault_txid, unvault_vout, txout, rbf) ==
    CMutableTransaction(<<CTxIn(COutPoint(unvault_txid, unvault_vout), nSequence(6))>>, <<txout>>, 2)
create_unvault_spend(unvault_txid, unvault_vout, txout, rbf) ==
    LET sequence == IF rbf THEN SEQUENCE_RBF ELSE SEQUENCE_FINAL
    IN  CMutableTransaction(<<CTxIn(COutPoint(unvault_txid, unvault_vout), sequence)>>, <<txout>>, 2)

create_cancel_tx(unvault_txid, unvault_vout, pubkeys, value) ==
    create_unvault_spend(unvault_txid, unvault_vout, vault_txout(pubkeys, value), TRUE)

create_emer_unvault_tx(unvault_txid, unvault_vout, emer_keys, value) ==
    create_unvault_spend(unvault_txid, unvault_vout, emergency_txout(emer_keys, value), TRUE)

\* addresses: a sequence of <<address, value>> pairs, the items() of the
\* dictionary in its order.
\* (a variant whose input does not carry the relative locktime)
create_spend_tx_final(unvault_txid, unvault_vout, addresses) ==
    LET txouts == [i \in 1..Len(addresses) |->
                      CTxOut(addresses[i][2], to_scriptPubKey(addresses[i][1]))]
    IN  CMutableTransaction(<<CTxIn(COutPoint(unvault_txid, unvault_vout), SEQUENCE_FINAL)>>, txouts, 2)
create_spend_tx(unvault_txid, unvault_vout, addresses) ==
    LET txouts == [i \in 1..Len(addresses) |->
                      CTxOut(addresses[i][2], to_scriptPubKey(addresses[i][1]))]
    IN  CMutableTransaction(<<CTxIn(COutPoint(unvault_txid, unvault_vout), nSequence(6))>>, txouts, 2)

\* SignatureHash(script, tx, inIdx, hashtype, amount, SIGVERSION_WITNESS_V0):
\* what the BIP143 digest commits to.  With ANYONECANPAY the outpoints and
\* the sequences of the other inputs are left out.  (inIdx counts from 0.)
\* (a variant whose ANYONECANPAY digest commits to every input)
SignatureHash_all_inputs(script, tx, inIdx, hashtype, amount) ==
    [nVersion |-> tx.nVersion,
     hashPrevouts |-> [i \in 1..Len(tx.vin) |-> tx.vin[i].prevout],
     hashSequence |-> [i \in 1..Len(tx.vin) |-> tx.vin[i].nSequence],
     outpoint |-> tx.vin[inIdx + 1].prevout,
     scriptCode |-> script,
     amount |-> amount,
     nSequence |-> tx.vin[inIdx + 1].nSequence,
     hashOutputs |-> tx.vout,
     hashtype |-> hashtype]
SignatureHash(script, tx, inIdx, hashtype, amount) ==
    [nVersion |-> tx.nVersion,
     hashPrevouts |-> IF hashtype = ALL_ANYONECANPAY THEN <<>>
                      ELSE [i \in 1..Len(tx.vin) |-> tx.vin[i].prevout],
     hashSequence |-> IF hashtype = ALL_ANYONECANPAY THEN <<>>
                      ELSE [i \in 1..Len(tx.vin) |-> tx.vin[i].nSequence],
     outpoint |-> tx.vin[inIdx + 1].prevout,
     scriptCode |-> script,
     amount |-> amount,
     nSequence |-> tx.vin[inIdx + 1].nSequence,
     hashOutputs |-> tx.vout,
     hashtype |-> hashtype]

\* CKey(privkey).sign(tx_hash) + bytes([sighash])
CKey_sign(privkey, tx_hash, sighash) ==
    <<"sig", [key |-> privkey, hashtype |-> sighash, hash |-> tx_hash]>>

\* The signature each sign_* function returns; its flag byte is the one of
\* the operator of the same name above.
signed_unvault_tx(tx, privkey, pubkeys, prev_value) ==
    CKey_sign(privkey, SignatureHash(vault_script(pubkeys), tx, 0, sign_unvault_tx, prev_value),
              sign_unvault_tx)

signed_emergency_vault_tx(tx, privkey, pubkeys, prev_value, sign_all) ==
    LET sighash == sign_emergency_vault_tx(sign_all)
    IN  CKey_sign(privkey, SignatureHash(vault_script(pubkeys), tx, 0, sighash, prev_value), sighash)

signed_unvault_revault(tx, privkey, pubkeys, pub_server, prev_value, sign_all) ==
    LET sighash == sign_unvault_revault(sign_all)
        script == unvault_script(pubkeys[1], pubkeys[2], pubkeys[3], pubkeys[4], pub_server)
    IN  CKey_sign(privkey, SignatureHash(script, tx, 0, sighash, prev_value), sighash)

sign_spend_tx(tx, privkey, pubkeys, pub_server, prev_value) ==
    LET script == unvault_script(pubkeys[1], pubkeys[2], pubkeys[3], pubkeys[4], pub_server)
    IN  CKey_sign(privkey, SignatureHash(script, tx, 0, SIGHASH_ALL, prev_value), SIGHASH_ALL)

\* sigs[::-1]
Reversed(s) == [i \in 1..Len(s) |-> s[Len(s) + 1 - i]]

\* form_*: tx.wit = CTxWitness([CTxInWitness(CScriptWitness(witness_script))])
\* (a variant without the leading empty element)
form_spend_vault_txout_no_dummy(tx, pubkeys, sigs) ==
    [tx EXCEPT !.wit = << sigs \o <<<<"script", vault_script(pubkeys)>>>> >>]
form_spend_vault_txout(tx, pubkeys, sigs) ==
    [tx EXCEPT !.wit = << <<Num(0)>> \o sigs \o <<<<"script", vault_script(pubkeys)>>>> >>]

\* (a variant that pushes the signatures of an unvault spend in slot order)
form_unvault_spend_in_order(tx, sigs, pubkeys, pub_server) ==
    [tx EXCEPT !.wit = <<sigs \o <<<<"script", unvault_script(pubkeys[1], pubkeys[2], pubkeys[3],
                                                               pubkeys[4], pub_server)>>>> >>]
form_unvault_spend(tx, sigs, pubkeys, pub_server) ==
    [tx EXCEPT !.wit = <<Reversed(sigs) \o
                         <<<<"script", unvault_script(pubkeys[1], pubkeys[2], pubkeys[3],
                                                      pubkeys[4], pub_server)>>>> >>]

form_spend_tx(tx, pubkeys, serv_key, sigs) ==
    [tx EXCEPT !.wit = <<Reversed(sigs) \o
                         <<<<"script", unvault_script(pubkeys[1], pubkeys[2], pubkeys[3],
                                                      pubkeys[4], serv_key)>>>> >>]

(***************************************************************************)
(* The node's validation of a transaction (bitcoind, as the tests of       *)
(* tests/test_transactions.py exercise it): the relative locktime of       *)
(* BIP68, then the witness program of each input.                          *)
(***************************************************************************)
IsNum(x) == x[1] = "num"
IsEmpty(x) == x[1] = "num" /\ x[2] = 0
CastToBool(x) == ~IsEmpty(x)
Bool(b) == IF b THEN Num(1) ELSE Num(0)

\* OP_CHECKSIG: the signature is by the key and over the digest its own
\* flag byte selects.
CheckSig(sig, pubkey, script, tx, inIdx, amount) ==
    /\ sig[1] = "sig"
    /\ sig[2].key = pubkey
    /\ sig[2].hash = SignatureHash(script, tx, inIdx, sig[2].hashtype, amount)

\* OP_CHECKMULTISIG: each signature must match a key, in the order of the
\* keys, starting from the last of both.
RECURSIVE MultiSig(_, _, _, _, _, _)
MultiSig(sigs, keys, script, tx, inIdx, amount) ==
    IF Len(sigs) = 0 THEN TRUE
    ELSE IF Len(sigs) > Len(keys) THEN FALSE
    ELSE IF CheckSig(sigs[Len(sigs)], keys[Len(keys)], script, tx, inIdx, amount)
         THEN MultiSig(SubSeq(sigs, 1, Len(sigs) - 1), SubSeq(keys, 1, Len(keys) - 1),
                       script, tx, inIdx, amount)
         ELSE MultiSig(sigs, SubSeq(keys, 1, Len(keys) - 1), script, tx, inIdx, amount)

\* OP_CHECKSEQUENCEVERIFY with the number n on top of the stack (BIP112).
CheckSequence(n, tx, inIdx) ==
    /\ n >= 0
    /\ tx.nVersion >= 2
    /\ tx.vin[inIdx + 1].nSequence[1] = 0
    /\ tx.vin[inIdx + 1].nSequence[2] % 65536 >= n % 65536

Failed == [ok |-> FALSE, stack |-> <<>>]

\* The script interpreter for the opcodes of the three scripts.  The stack
\* is a sequence whose last element is the top.  branch is "top" outside
\* OP_IF .. OP_ENDIF, and inside tells the branch the script is in and
\* whether it is executed.  A failing OP_CHECKSIG with a signature that is
\* not empty fails the script (NULLFAIL), and so does OP_CHECKMULTISIG with a
\* dummy that is not empty (NULLDUMMY).
RECURSIVE EvalScript(_, _, _, _, _, _, _)
EvalScript(script, pc, st, branch, tx, inIdx, amount) ==
    IF pc > Len(script) THEN [ok |-> branch = "top", stack |-> st]
    ELSE
    LET e == script[pc]
        n == Len(st)
        Step(st2) == EvalScript(script, pc + 1, st2, branch, tx, inIdx, amount)
        Goto(b, st2) == EvalScript(script, pc + 1, st2, b, tx, inIdx, amount)
    IN  CASE e.op = "OP_IF" ->
                 IF branch # "top" \/ n < 1 THEN Failed
                 ELSE IF CastToBool(st[n]) THEN Goto("exec_if", SubSeq(st, 1, n - 1))
                 ELSE Goto("skip_if", SubSeq(st, 1, n - 1))
          [] e.op = "OP_ELSE" ->
                 IF branch = "exec_if" THEN Goto("skip_else", st)
                 ELSE IF branch = "skip_if" THEN Goto("exec_else", st)
                 ELSE Failed
          [] e.op = "OP_ENDIF" ->
                 IF branch = "top" THEN Failed ELSE Goto("top", st)
          [] OTHER ->
             IF branch \in {"skip_if", "skip_else"} THEN Step(st)
             ELSE
             CASE e.op = "PUSH" -> Step(Append(st, e.data))
               [] e.op = "OP_DUP" ->
                      IF n < 1 THEN Failed ELSE Step(Append(st, st[n]))
               [] e.op = "OP_DROP" ->
                      IF n < 1 THEN Failed ELSE Step(SubSeq(st, 1, n - 1))
               [] e.op = "OP_SWAP" ->
                      IF n < 2 THEN Failed
                      ELSE Step(SubSeq(st, 1, n - 2) \o <<st[n], st[n - 1]>>)
               [] e.op = "OP_ADD" ->
                      IF n < 2 \/ ~IsNum(st[n]) \/ ~IsNum(st[n - 1]) THEN Failed
                      ELSE Step(Append(SubSeq(st, 1, n - 2), Num(st[n - 1][2] + st[n][2])))
               [] e.op \in {"OP_EQUAL", "OP_EQUALVERIFY"} ->
                      IF n < 2 THEN Failed
                      ELSE LET eq == IsNum(st[n]) /\ IsNum(st[n - 1]) /\ st[n][2] = st[n - 1][2]
                           IN  IF e.op = "OP_EQUAL" THEN Step(Append(SubSeq(st, 1, n - 2), Bool(eq)))
                               ELSE IF eq THEN Step(SubSeq(st, 1, n - 2)) ELSE Failed
               [] e.op \in {"OP_CHECKSIG", "OP_CHECKSIGVERIFY"} ->
                      IF n < 2 THEN Failed
                      ELSE LET ok == CheckSig(st[n - 1], st[n], script, tx, inIdx, amount)
                           IN  IF ~ok /\ ~IsEmpty(st[n - 1]) THEN Failed
                               ELSE IF e.op = "OP_CHECKSIG"
                                    THEN Step(Append(SubSeq(st, 1, n - 2), Bool(ok)))
                               ELSE IF ok THEN Step(SubSeq(st, 1, n - 2)) ELSE Failed
               [] e.op = "OP_CHECKSEQUENCEVERIFY" ->
                      IF n < 1 \/ ~IsNum(st[n]) THEN Failed
                      ELSE IF CheckSequence(st[n][2], tx, inIdx) THEN Step(st) ELSE Failed
               [] e.op = "OP_CHECKMULTISIG" ->
                      IF n < 1 \/ ~IsNum(st[n]) THEN Failed
                      ELSE LET nk == st[n][2]
                           IN  IF n < nk + 2 \/ ~IsNum(st[n - nk - 1]) THEN Failed
                           ELSE LET m == st[n - nk - 1][2]
                                    keys == SubSeq(st, n - nk, n - 1)
                                    low == n - nk - 1 - m
                                IN  IF low < 2 THEN Failed
                                    ELSE LET sigs == SubSeq(st, low, n - nk - 2)
                                             ok == MultiSig(sigs, keys, script, tx, inIdx, amount)
                                         IN  IF ~IsEmpty(st[low - 1]) \/ ~ok THEN Failed
                                             ELSE Step(Append(SubSeq(st, 1, low - 2), Bool(ok)))
               [] OTHER -> Failed

\* The witness program of input inIdx spending txout: for a P2WSH output
\* the last witness element is the script, which must be the one the output
\* commits to, and the stack it leaves must be the one element true.
VerifyScript(tx, inIdx, txout) ==
    LET wit == IF inIdx + 1 <= Len(tx.wit) THEN tx.wit[inIdx + 1] ELSE <<>>
        spk == txout.scriptPubKey
    IN  CASE spk.type = "p2wsh" ->
                 /\ Len(wit) >= 1
                 /\ wit[Len(wit)][1] = "script"
                 /\ wit[Len(wit)][2] = spk.script
                 /\ LET r == EvalScript(spk.script, 1, SubSeq(wit, 1, Len(wit) - 1), "top",
                                        tx, inIdx, txout.nValue)
                    IN  r.ok /\ Len(r.stack) = 1 /\ CastToBool(r.stack[1])
          [] spk.type = "p2wpkh" ->
                 /\ Len(wit) = 2
                 /\ wit[2] = spk.script[1].data
                 /\ CheckSig(wit[1], wit[2], spk.script, tx, inIdx, txout.nValue)
          [] OTHER -> FALSE

\* A coin: an unspent output, with the height of the block that confirmed
\* it (0 while its transaction is in the mempool).
Coin(tx, n, h) == [outpoint |-> COutPoint(GetTxid(tx), n - 1), txout |-> tx.vout[n], height |-> h]
CoinOf(C, prevout) == CHOOSE c \in C : c.outpoint = prevout
Confirmations(c, h) == IF c.height = 0 THEN 0 ELSE h - c.height + 1

\* BIP68: an input of a version 2 transaction whose nSequence has bit 31
\* clear cannot be mined before its coin has that many confirmations.
SequenceLocks(tx, C, h) ==
    tx.nVersion >= 2 =>
        \A i \in 1..Len(tx.vin) :
            tx.vin[i].nSequence[1] = 0 =>
                Confirmations(CoinOf(C, tx.vin[i].prevout), h) >= tx.vin[i].nSequence[2] % 65536

RECURSIVE SumValues(_)
SumValues(txouts) ==
    IF Len(txouts) = 0 THEN 0 ELSE txouts[1].nValue + SumValues(Tail(txouts))

\* tx_fees of the tests: the value of the inputs minus the value of the outputs.
tx_fees(tx, C) ==
    SumValues([i \in 1..Len(tx.vin) |-> CoinOf(C, tx.vin[i].prevout).txout]) - SumValues(tx.vout)

ACCEPTED == "accepted"
NON_BIP68_FINAL == "non-BIP68-final"

\* The node's answer to sendrawtransaction / testmempoolaccept at height h.
testmempoolaccept(tx, C, h) ==
    IF \E i \in 1..Len(tx.vin) : \A c \in C : c.outpoint # tx.vin[i].prevout
    THEN "missing-inputs"
    ELSE IF ~SequenceLocks(tx, C, h) THEN NON_BIP68_FINAL
    ELSE IF tx_fees(tx, C) < 0 THEN "bad-txns-in-belowout"
    ELSE IF \E i \in 1..Len(tx.vin) : ~VerifyScript(tx, i - 1, CoinOf(C, tx.vin[i].prevout).txout)
    THEN "script-verify-flag-failed"
    ELSE ACCEPTED

(***************************************************************************)
(* add_new_vault                                                           *)
(***************************************************************************)
EmptyTable == [s \in Stakeholders |-> None]
OwnTable(sig) == [s \in Stakeholders |-> IF s = stk_id THEN sig ELSE None]

\* The vault dict add_new_vault appends for listunspent entry u.
new_vault(u, index) ==
    [txid |-> u.txid, vout |-> u.vout, address |-> u.addr, index |-> index,
     sigs |-> [k \in Kinds |->
                 CASE k = EMER -> OwnTable(create_sign_emergency.kept)
                   [] k = UNVAULT -> OwnTable(create_sign_unvault.kept)
                   [] k = CANCEL -> OwnTable(create_sign_cancel.kept)
                   [] k = UNEMER -> OwnTable(create_sign_unvault_emer.kept)],
     \* the fee-rate each of "emergency_tx", "unvault_tx", "cancel_tx" and
     \* "unvault_emer_tx" pays
     feerate |-> [k \in Kinds |->
                 CASE k = EMER -> create_sign_emergency.feerate
                   [] k = UNVAULT -> create_sign_unvault.feerate
                   [] k = CANCEL -> create_sign_cancel.feerate
                   [] k = UNEMER -> create_sign_unvault_emer.feerate],
     emergency_signed |-> FALSE,
     unvault_signed |-> FALSE,
     unvault_secure |-> FALSE]

\* "Send all our sigs but the unvault one, until we are secured"
IngestKinds == {EMER, CANCEL, UNEMER}
SharedSig(kind) ==
    CASE kind = EMER -> create_sign_emergency.shared
      [] kind = CANCEL -> create_sign_cancel.shared
      [] kind = UNEMER -> create_sign_unvault_emer.shared
      [] kind = UNVAULT -> create_sign_unvault.shared

ingest_signatures(store, vr) ==
    [k \in DOMAIN store \cup {<<TxKey(vr, kind), stk_id>> : kind \in IngestKinds} |->
        IF \E kind \in IngestKinds : k = <<TxKey(vr, kind), stk_id>>
        THEN SharedSig(k[1][3])
        ELSE store[k]]

(***************************************************************************)
(* The signature fetchers.  A fetcher thread is <<generation, vault, role>>*)
(* and its state is the place it has reached:                              *)
(*   wait   inside update_sigs_stop.wait(3.0) of the loop over table kind  *)
(*          (woke: the event was set at entry or has been set since)       *)
(*   fetch  slot i was seen empty, about to take vaults_lock and fetch it  *)
(*   accept / secure / send / signed   the steps after the loops           *)
(* A thread that returned is removed from fetchers.                        *)
(***************************************************************************)
\* "None in vault[..]" (and a variant that never finds an empty slot)
HasNone_never(vr, kind) == FALSE
HasNone(vr, kind) == \E s \in Stakeholders : vr.sigs[kind][s] = None

\* The first slot after i that is empty (0: none), the "is None" test of
\* the for loop (and a variant of the loop without the test).
NextNone_untested(tbl, i) == IF i < NStakeholders THEN i + 1 ELSE 0
NextNone(tbl, i) ==
    LET c == {j \in Stakeholders : j > i /\ tbl[j] = None}
    IN  IF c = {} THEN 0 ELSE CHOOSE j \in c : \A k \in c : j <= k

Done == [pc |-> "done", kind |-> None, i |-> 0, woke |-> FALSE]
At(pc, kind) == [pc |-> pc, kind |-> kind, i |-> 0, woke |-> FALSE]
StartLoop(kind, stop) == [pc |-> "wait", kind |-> kind, i |-> 0, woke |-> stop]

\* update_unvault_revocations, after both loops returned:
\* "if None not in vault["unvault_emer_sigs"] + vault["cancel_sigs"]"
RevocationsComplete(vr) == ~HasNone(vr, UNEMER) /\ ~HasNone(vr, CANCEL)
\* (a variant without the test, to show that the gate matters)
revocations_check_ungated(vr) == At("secure", UNVAULT)
revocations_check(vr) == IF RevocationsComplete(vr) THEN At("secure", UNVAULT) ELSE Done

\* Entering each update_* function: its "while None in ..." test (and a
\* variant of the last one without the loop).
update_cancel_unvault(vr, stop) ==
    IF HasNone(vr, CANCEL) THEN StartLoop(CANCEL, stop) ELSE revocations_check(vr)
update_unvault_emergency(vr, stop) ==
    IF HasNone(vr, UNEMER) THEN StartLoop(UNEMER, stop) ELSE update_cancel_unvault(vr, stop)
update_emergency_signatures(vr, stop) ==
    IF HasNone(vr, EMER) THEN StartLoop(EMER, stop) ELSE At("accept", EMER)
update_unvault_transaction_no_loop(vr, stop) == At("signed", UNVAULT)
update_unvault_transaction(vr, stop) ==
    IF HasNone(vr, UNVAULT) THEN StartLoop(UNVAULT, stop) ELSE At("signed", UNVAULT)

\* Where a thread goes when the while loop over table kind ends normally.
AfterLoop(vr, kind, stop) ==
    CASE kind = EMER -> At("accept", EMER)
      [] kind = UNEMER -> update_cancel_unvault(vr, stop)
      [] kind = CANCEL -> revocations_check(vr)
      [] kind = UNVAULT -> At("signed", UNVAULT)

\* Where it goes on "if self.update_sigs_stop.wait(3.0): return".
AfterStop(vr, kind, stop) ==
    CASE kind = EMER -> Done
      [] kind = UNEMER -> update_cancel_unvault(vr, stop)
      [] kind = CANCEL -> revocations_check(vr)
      [] kind = UNVAULT -> Done

\* fetchers with thread t moved to state st (removed when it returned).
Moved(t, st) ==
    IF st.pc = "done"
    THEN [u \in DOMAIN fetchers \ {t} |-> fetchers[u]]
    ELSE [fetchers EXCEPT ![t] = st]

\* The wait(3.0) of a loop ends: stop seen, or timeout and the for loop
\* starts testing the slots.
FetchWait(t) ==
    /\ t \in DOMAIN fetchers
    /\ fetchers[t].pc = "wait"
    /\ LET vr == vault[t[2]]
           kind == fetchers[t].kind
           j == NextNone(vr.sigs[kind], 0)
       IN  fetchers' = Moved(t,
              IF fetchers[t].woke THEN AfterStop(vr, kind, update_sigs_stop)
              ELSE IF j # 0 THEN [pc |-> "fetch", kind |-> kind, i |-> j, woke |-> FALSE]
              ELSE AfterLoop(vr, kind, update_sigs_stop))
    /\ UNCHANGED <<stk_id, trader, bench_vars, idx_vars, vault, vaults, vaults_lock, stop_vars,
                   update_sigs_stop, poller, master, spend_vars, sigserver,
                   chain_vars>>

\* The signature a loop stores for the answer sig of the sig-server: the
\* revocation loops keep the slot when the answer is None, the unvault loop
\* assigns the answer whatever it is.
stored_signature(kind, old, sig) ==
    IF kind = UNVAULT THEN sig
    ELSE IF sig # None THEN sig ELSE old

\* "assert sig[-1] == ALL_ANYONECANPAY" of the three revocation loops.
sighash_assertion(kind, sig) ==
    kind = UNVAULT \/ sig = None \/ sig = ALL_ANYONECANPAY

\* One slot of a for loop: acquire, get_signature, store, release.
FetchSlot(t) ==
    /\ t \in DOMAIN fetchers
    /\ fetchers[t].pc = "fetch"
    /\ vaults_lock = FREE
    /\ LET v == t[2]
           kind == fetchers[t].kind
           i == fetchers[t].i
           sig == get_signature(TxKey(vault[v], kind), i)
           vr == [vault[v] EXCEPT !.sigs[kind][i] = stored_signature(kind, @, sig)]
           j == NextNone(vr.sigs[kind], i)
       IN  IF sighash_assertion(kind, sig)
           THEN /\ vault' = [vault EXCEPT ![v] = vr]
                /\ fetchers' = Moved(t,
                      IF j # 0 THEN [pc |-> "fetch", kind |-> kind, i |-> j, woke |-> FALSE]
                      ELSE IF HasNone(vr, kind) THEN StartLoop(kind, update_sigs_stop)
                      ELSE AfterLoop(vr, kind, update_sigs_stop))
                /\ UNCHANGED vaults_lock
           ELSE \* AssertionError: the thread dies, the lock is never released
                /\ vaults_lock' = t
                /\ fetchers' = Moved(t, Done)
                /\ UNCHANGED vault
    /\ UNCHANGED <<stk_id, trader, bench_vars, idx_vars, vaults, stop_vars, update_sigs_stop,
                   poller, master, spend_vars, sigserver, chain_vars>>

\* update_emergency_signatures after its loop: assertmempoolaccept, then
\* emergency_signed is set under the lock.
FetchAccept(t) ==
    /\ t \in DOMAIN fetchers
    /\ fetchers[t].pc = "accept"
    /\ vaults_lock = FREE
    /\ vault' = [vault EXCEPT ![t[2]].emergency_signed = TRUE]
    /\ fetchers' = Moved(t, Done)
    /\ UNCHANGED <<stk_id, trader, bench_vars, idx_vars, vaults, vaults_lock, stop_vars,
                   update_sigs_stop, poller, master, spend_vars, sigserver,
                   chain_vars>>

\* update_unvault_revocations: unvault_secure is set under the lock.
FetchSecure(t) ==
    /\ t \in DOMAIN fetchers
    /\ fetchers[t].pc = "secure"
    /\ vaults_lock = FREE
    /\ vault' = [vault EXCEPT ![t[2]].unvault_secure = TRUE]
    /\ fetchers' = Moved(t, At("send", UNVAULT))
    /\ UNCHANGED <<stk_id, trader, bench_vars, idx_vars, vaults, vaults_lock, stop_vars,
                   update_sigs_stop, poller, master, spend_vars, sigserver,
                   chain_vars>>

\* update_unvault_revocations: our unvault signature is sent, then
\* update_unvault_transaction is called.
FetchSend(t) ==
    /\ t \in DOMAIN fetchers
    /\ fetchers[t].pc = "send"
    /\ LET vr == vault[t[2]]
       IN  /\ sigserver' = send_signature(sigserver, TxKey(vr, UNVAULT), stk_id,
                                          vr.sigs[UNVAULT][stk_id])
           /\ fetchers' = Moved(t, update_unvault_transaction(vr, update_sigs_stop))
    /\ UNCHANGED <<stk_id, trader, bench_vars, idx_vars, vault, vaults, vaults_lock, stop_vars,
                   update_sigs_stop, poller, master, spend_vars, chain_vars>>

\* update_unvault_transaction after its loop: unvault_signed under the lock.
FetchSigned(t) ==
    /\ t \in DOMAIN fetchers
    /\ fetchers[t].pc = "signed"
    /\ vaults_lock = FREE
    /\ vault' = [vault EXCEPT ![t[2]].unvault_signed = TRUE]
    /\ fetchers' = Moved(t, Done)
    /\ UNCHANGED <<stk_id, trader, bench_vars, idx_vars, vaults, vaults_lock, stop_vars,
                   update_sigs_stop, poller, master, spend_vars, sigserver,
                   chain_vars>>

(***************************************************************************)
(* update_all_signatures (the update_sigs_thread of one generation).       *)
(***************************************************************************)
\* The threads one loop iteration starts for vault v, with their states.
spawned(g, v, stop) ==
    LET vr == vault[v]
        e == IF ~vr.emergency_signed THEN {<<g, v, R_EMER>>} ELSE {}
        r == IF ~vr.unvault_secure THEN {<<g, v, R_REVOC>>}
             ELSE IF ~vr.unvault_signed THEN {<<g, v, R_UNVAULT>>} ELSE {}
    IN  [t \in e \cup r |->
            CASE t[3] = R_EMER -> update_emergency_signatures(vr, stop)
              [] t[3] = R_REVOC -> update_unvault_emergency(vr, stop)
              [] t[3] = R_UNVAULT -> update_unvault_transaction(vr, stop)]

\* The threads appended to the list that is joined at the end.
joined(g, v) == IF ~vault[v].emergency_signed THEN {<<g, v, R_EMER>>} ELSE {}

MasterSpawn ==
    /\ master.pc = "spawn"
    /\ IF master.k > Len(vaults)
       THEN /\ master' = [master EXCEPT !.pc = "join"]
            /\ UNCHANGED fetchers
       ELSE IF update_sigs_stop
       THEN \* "if self.update_sigs_stop.wait(0.0): return"
            /\ master' = [master EXCEPT !.pc = "dead", !.threads = {}]
            /\ UNCHANGED fetchers
       ELSE LET v == vaults[master.k]
                new == spawned(master.gen, v, update_sigs_stop)
                live == {t \in DOMAIN new : new[t].pc # "done"}
            IN  /\ fetchers' = [t \in DOMAIN fetchers \cup live |->
                                  IF t \in live THEN new[t] ELSE fetchers[t]]
                /\ master' = [master EXCEPT !.k = @ + 1,
                                !.threads = @ \cup (joined(master.gen, v) \cap live)]
    /\ UNCHANGED <<stk_id, trader, bench_vars, idx_vars, vault, vaults, vaults_lock, stop_vars,
                   update_sigs_stop, poller, spend_vars, sigserver, chain_vars>>

\* "while len(threads) > 0: threads.pop().join()"
MasterJoin ==
    /\ master.pc = "join"
    /\ master.threads \cap DOMAIN fetchers = {}
    /\ master' = [master EXCEPT !.pc = "dead", !.threads = {}]
    /\ UNCHANGED <<stk_id, trader, bench_vars, idx_vars, vault, vaults, vaults_lock, stop_vars,
                   update_sigs_stop, poller, fetchers, spend_vars, sigserver,
                   chain_vars>>

(***************************************************************************)
(* poll_for_funds (the funds_poller thread).  One iteration is:            *)
(*   wait       funds_poller_stop.wait(5.0), then the listunspent query    *)
(*   reconcile  "for v in spent_vaults", one vault per step                *)
(*   remove     the spent vaults are dropped from self.vaults              *)
(*   ingest     "for utxo in new_vaults", one utxo per step                *)
(*   restart    update_sigs_stop.set()                                     *)
(*   join       update_sigs_thread.join(), clear(), new thread started     *)
(***************************************************************************)
POLLER == <<0, 0, "funds_poller">>

AfterReconcile(spent, new) ==
    IF spent # <<>> THEN "reconcile" ELSE IF new # <<>> THEN "ingest" ELSE "wait"

\* The query at the top of the loop and the three list comprehensions.
PollList ==
    /\ poller.pc = "wait"
    /\ IF funds_poller_stop
       THEN poller' = [poller EXCEPT !.pc = "exit"]
       ELSE LET known_outputs == {vault[v].txid : v \in Range(vaults)}
                current_utxos == listunspent_vaults
                current_utxos_id == {u.txid : u \in current_utxos}
                spent_vaults == SelectSeq(vaults,
                                   LAMBDA v : vault[v].txid \notin current_utxos_id)
                new_set == {u \in current_utxos : u.txid \notin known_outputs}
            IN  \E new_vaults \in Perms(new_set) :
                   poller' = [pc |-> AfterReconcile(spent_vaults, new_vaults),
                              current_utxos |-> current_utxos,
                              spent |-> spent_vaults, todo |-> spent_vaults,
                              new |-> new_vaults, had_new |-> new_vaults # <<>>]
    /\ UNCHANGED <<stk_id, trader, bench_vars, idx_vars, vault, vaults, vaults_lock, stop_vars,
                   update_sigs_stop, master, fetchers, spend_vars, sigserver,
                   chain_vars>>

(***************************************************************************)
(* The pre-signed transactions and the node's mempool.  A transaction is   *)
(* identified by its kind and the funding outpoint of its vault; its txid  *)
(* is derived from them.                                                   *)
(***************************************************************************)
TX_EMER == "emergency_tx"
TX_UNVAULT == "unvault_tx"
TX_CANCEL == "cancel_tx"
TX_UNEMER == "unvault_emer_tx"
TX_SPEND == "spend_tx"

TxCode(kind) ==
    CASE kind = TX_EMER -> 1 [] kind = TX_UNVAULT -> 2 [] kind = TX_CANCEL -> 3
      [] kind = TX_UNEMER -> 4 [] kind = TX_SPEND -> 5

TxidOf(kind, txid, vout) == 10 * (2 * txid + vout) + TxCode(kind)

\* The signatures get_signed_* puts in the witness: the table, with our own
\* signature replaced by an ALL|ANYONECANPAY one when the fees are bumped.
signed_with(vr, table, low) ==
    IF low THEN [vr.sigs[table] EXCEPT ![stk_id] = ALL_ANYONECANPAY] ELSE vr.sigs[table]

\* (minimal is the key of the target the fee-rate was compared to)
formed(kind, vr, table, low, minimal) ==
    [kind |-> kind, txid |-> vr.txid, vout |-> vr.vout,
     sigs |-> signed_with(vr, table, low), bumped |-> low, minimal_feerate |-> minimal]

\* get_signed_*: the empty set stands for None.  low is the answer of the
\* node to "feerate < minimal_feerate".
get_signed_emergency_tx(vr, low) ==
    IF HasNone(vr, EMER) THEN {} ELSE {formed(TX_EMER, vr, EMER, low, FEERATE_EMERGENCY)}
get_signed_unvault_tx(vr) ==
    IF HasNone(vr, UNVAULT) THEN {} ELSE {formed(TX_UNVAULT, vr, UNVAULT, FALSE, None)}
get_signed_cancel_tx(vr, low) ==
    IF HasNone(vr, CANCEL) THEN {} ELSE {formed(TX_CANCEL, vr, CANCEL, low, FEERATE_CANCEL)}
get_signed_unvault_emergency_tx(vr, low) ==
    IF HasNone(vr, UNEMER) THEN {} ELSE {formed(TX_UNEMER, vr, UNEMER, low, FEERATE_CANCEL)}

\* The output a transaction spends: the funding outpoint for the emergency
\* and unvault transactions, the unvault output for the other three.
SpentBy(U, tx) ==
    IF tx.kind \in {TX_EMER, TX_UNVAULT}
    THEN {u \in U : u.txid = tx.txid /\ u.vout = tx.vout /\ u.addr[1] = "vault"}
    ELSE {u \in U : u.txid = TxidOf(TX_UNVAULT, tx.txid, tx.vout) /\ u.vout = 0}

\* The output a pre-signed transaction creates when it spends output u.
CreatedBy(tx, u) ==
    [txid |-> TxidOf(tx.kind, tx.txid, tx.vout), vout |-> 0,
     addr |-> CASE tx.kind = TX_EMER -> emergency_address
                [] tx.kind = TX_UNEMER -> emergency_address
                [] tx.kind = TX_UNVAULT -> unvault_address(u.addr[2])
                [] tx.kind = TX_CANCEL -> get_vault_address(u.addr[2])]

\* sendrawtransaction: the transaction enters the mempool when the output
\* it spends is unspent and the mempool takes transactions; otherwise the
\* node answers with a JSONRPCError and the UTXO set is unchanged.
sendrawtransaction(U, tx) ==
    LET ins == SpentBy(U, tx)
    IN  IF ins = {} \/ rejecting THEN U
        ELSE (U \ ins) \cup {CreatedBy(tx, u) : u \in ins}

Logged(tx) ==
    [kind |-> tx.kind, txid |-> tx.txid, vout |-> tx.vout, bumped |-> tx.bumped,
     minimal_feerate |-> tx.minimal_feerate]

\* The node answers sendrawtransaction(tx) with a JSONRPCError.
JSONRPCError(U, tx) == sendrawtransaction(U, tx) = U

\* "try: self.bitcoind.sendrawtransaction(tx) / except JSONRPCError: pass":
\* whether the code after the try statement is reached (and a variant
\* without the except clause).
send_uncaught(U, tx) == ~JSONRPCError(U, tx)
send_caught(U, tx) == TRUE

(***************************************************************************)
(* poll_for_funds: "for v in spent_vaults".                                *)
(***************************************************************************)
\* "Game over": the loop over self.vaults from position k on, with the UTXO
\* set U and the log S of the transactions sent so far.  The result tells
\* whether the loop ran to its end or died on ".serialize()" of None.
RECURSIVE game_over(_, _, _, _)
game_over(k, U, S, low) ==
    IF k > Len(vaults) THEN [utxos |-> U, sent |-> S, completed |-> TRUE]
    ELSE LET vr == vault[vaults[k]]
             etx == get_signed_emergency_tx(vr, low)
             uetx == get_signed_unvault_emergency_tx(vr, low)
         IN  IF etx = {} THEN [utxos |-> U, sent |-> S, completed |-> FALSE]
             ELSE LET e == CHOOSE x \in etx : TRUE
                      U1 == sendrawtransaction(U, e)
                      S1 == Append(S, Logged(e))
                  IN  IF ~send_caught(U, e) \/ uetx = {}
                      THEN [utxos |-> U1, sent |-> S1, completed |-> FALSE]
                      ELSE LET ue == CHOOSE x \in uetx : TRUE
                               U2 == sendrawtransaction(U1, ue)
                               S2 == Append(S1, Logged(ue))
                           IN  IF ~send_caught(U1, ue)
                               THEN [utxos |-> U2, sent |-> S2, completed |-> FALSE]
                               ELSE game_over(k + 1, U2, S2, low)

\* "if v["txid"] not in self.acked_spends" (and a variant that forgets the
\* accepted spends)
spend_acked_never(txid) == FALSE
spend_acked(txid) == txid \in acked_spends

\* The tests one iteration of "for v in spent_vaults" makes, in their
\* order: an output at the emergency address (em), else an output at the
\* unvault address of the vault (un), else the assertion that there is one
\* at its cancel address (ca).  (And a variant that looks at the unvault
\* address first.)
OUT_EMERGENCY == "emergency"
OUT_UNVAULT == "unvault"
OUT_CANCEL == "cancel"
OUT_NONE == "AssertionError"
classify_unvault_first(em, un, ca) ==
    IF un THEN OUT_UNVAULT
    ELSE IF em THEN OUT_EMERGENCY
    ELSE IF ca THEN OUT_CANCEL ELSE OUT_NONE
classify(em, un, ca) ==
    IF em THEN OUT_EMERGENCY
    ELSE IF un THEN OUT_UNVAULT
    ELSE IF ca THEN OUT_CANCEL ELSE OUT_NONE

\* The outcome for vault record vr with the node's current UTXO set.
outcome(vr) ==
    classify(listunspent({emergency_address}) # {},
             listunspent({unvault_address(vr.index)}) # {},
             listunspent({get_vault_address(vr.index)}) # {})

\* One iteration of "for v in spent_vaults".
PollReconcile ==
    /\ poller.pc = "reconcile"
    /\ \E low \in BOOLEAN :
       LET v == Head(poller.todo)
           vr == vault[v]
           rest == Tail(poller.todo)
           next == [poller EXCEPT !.todo = rest,
                      !.pc = IF rest = <<>> THEN "remove" ELSE "reconcile"]
           crashed == [poller EXCEPT !.pc = "crashed"]
           out == outcome(vr)
       IN  IF out = OUT_EMERGENCY
           THEN LET r == game_over(1, utxos, sent, low)
                IN  /\ utxos' = r.utxos
                    /\ sent' = r.sent
                    /\ stopped' = (stopped \/ r.completed)
                    /\ poller' = IF r.completed THEN [poller EXCEPT !.pc = "exit"]
                                 ELSE crashed
           ELSE IF out \in {OUT_CANCEL, OUT_NONE}
           THEN \* "assert len(listunspent(cancel_addr)) > 0"
                /\ poller' = IF out = OUT_CANCEL THEN next ELSE crashed
                /\ UNCHANGED <<utxos, sent, stopped>>
           ELSE IF ~spend_acked(vr.txid)
           THEN LET ctx == get_signed_cancel_tx(vr, low)
                IN  IF ctx = {}
                    THEN /\ poller' = crashed
                         /\ UNCHANGED <<utxos, sent, stopped>>
                    ELSE LET c == CHOOSE x \in ctx : TRUE
                         IN  /\ utxos' = sendrawtransaction(utxos, c)
                             /\ sent' = Append(sent, Logged(c))
                             /\ poller' = IF send_caught(utxos, c) THEN next ELSE crashed
                             /\ UNCHANGED stopped
           ELSE /\ poller' = next
                /\ UNCHANGED <<utxos, sent, stopped>>
    /\ UNCHANGED <<stk_id, trader, bench_vars, idx_vars, vault, vaults, vaults_lock,
                   funds_poller_stop, spends_poller_stop, bitcoind_open, caller,
                   update_sigs_stop, master, fetchers, spend_vars, sigserver,
                   funded, rejecting>>

\* "self.vaults = [v for v in self.vaults if v not in spent_vaults]" (and a
\* variant that keeps every vault)
keep_all(vs, spent_vaults) == vs
not_spent(vs, spent_vaults) == SelectSeq(vs, LAMBDA v : v \notin Range(spent_vaults))

\* "These were unvaulted": the spent vaults leave self.vaults.
PollRemove ==
    /\ poller.pc = "remove"
    /\ vaults_lock = FREE
    /\ vaults' = not_spent(vaults, poller.spent)
    /\ poller' = [poller EXCEPT !.pc = AfterReconcile(<<>>, poller.new)]
    /\ UNCHANGED <<stk_id, trader, bench_vars, idx_vars, vault, vaults_lock, stop_vars,
                   update_sigs_stop, master, fetchers, spend_vars, sigserver,
                   chain_vars>>

\* "for utxo in new_vaults": add_new_vault under the lock, then the indexes.
PollIngest ==
    /\ poller.pc = "ingest"
    /\ vaults_lock = FREE
    /\ LET u == Head(poller.new)
           index == guess_index(u.addr, max_index)
           rest == Tail(poller.new)
       IN  IF index = {}
           THEN \* "No such vault script with our known pubkeys !": the thread
                \* dies inside add_new_vault, the lock is never released
                /\ vaults_lock' = POLLER
                /\ poller' = [poller EXCEPT !.pc = "crashed"]
                /\ UNCHANGED <<vault, vaults, sigserver, idx_vars>>
           ELSE LET vr == new_vault(u, CHOOSE i \in index : TRUE)
                IN  /\ vault' = Append(vault, vr)
                    /\ vaults' = Append(vaults, Len(vault) + 1)
                    /\ sigserver' = ingest_signatures(sigserver, vr)
                    /\ current_index' = current_index + 1
                    /\ max_index' = max_index + 1
                    /\ vault_addresses' =
                          IF current_index + 1 > index_treshold - INDEX_GAP
                          THEN update_watched_addresses(vault_addresses,
                                     current_index + 1, max_index + 1)
                          ELSE vault_addresses
                    /\ poller' = [poller EXCEPT !.new = rest,
                                    !.pc = IF rest = <<>> THEN "restart" ELSE "ingest"]
                    /\ UNCHANGED <<vaults_lock, current_gen_index, index_treshold,
                                   handed_out>>
    /\ UNCHANGED <<stk_id, trader, bench_vars, stop_vars, update_sigs_stop, master, fetchers,
                   spend_vars, chain_vars>>

\* "self.update_sigs_stop.set()": every thread inside wait() is woken.
PollRestart ==
    /\ poller.pc = "restart"
    /\ update_sigs_stop' = TRUE
    /\ fetchers' = [t \in DOMAIN fetchers |->
                      IF fetchers[t].pc = "wait"
                      THEN [fetchers[t] EXCEPT !.woke = TRUE] ELSE fetchers[t]]
    /\ poller' = [poller EXCEPT !.pc = "join"]
    /\ UNCHANGED <<stk_id, trader, bench_vars, idx_vars, vault, vaults, vaults_lock, stop_vars,
                   master, spend_vars, sigserver, chain_vars>>

\* join() returns (RuntimeError for the thread never started), the event is
\* cleared and the next update_all_signatures thread is started.
\* (a variant that leaves the event set)
PollJoin_no_clear ==
    /\ poller.pc = "join"
    /\ master.pc \in {"unstarted", "dead"}
    /\ master' = [gen |-> master.gen + 1, pc |-> "spawn", k |-> 1, threads |-> {}]
    /\ poller' = [poller EXCEPT !.pc = "wait", !.had_new = FALSE]
    /\ UNCHANGED <<stk_id, trader, bench_vars, idx_vars, vault, vaults, vaults_lock, stop_vars,
                   update_sigs_stop, fetchers, spend_vars, sigserver, chain_vars>>
PollJoin ==
    /\ poller.pc = "join"
    /\ master.pc \in {"unstarted", "dead"}
    /\ update_sigs_stop' = FALSE
    /\ master' = [gen |-> master.gen + 1, pc |-> "spawn", k |-> 1, threads |-> {}]
    /\ poller' = [poller EXCEPT !.pc = "wait", !.had_new = FALSE]
    /\ UNCHANGED <<stk_id, trader, bench_vars, idx_vars, vault, vaults, vaults_lock, stop_vars,
                   fetchers, spend_vars, sigserver, chain_vars>>

(***************************************************************************)
(* poll_for_spends (the spends_poller thread).                             *)
(***************************************************************************)
\* The acked_addresses the engine was constructed with.
acked_addresses == {<<"acked", 0>>}

\* The two tests on the output addresses of a spend request.
spend_decision(addresses) ==
    IF \E a \in addresses : ~(InList(a, vault_addresses) \/ a \in acked_addresses)
    THEN "refuse"
    ELSE IF \E a \in addresses : a \notin acked_addresses
    THEN "refuse"
    ELSE "accept"

\* The sequence of the elements of a set of numbers, in increasing order.
RECURSIVE Sorted(_)
Sorted(S) ==
    IF S = {} THEN <<>>
    ELSE LET m == CHOOSE x \in S : \A y \in S : x <= y
         IN  <<m>> \o Sorted(S \ {m})

\* "[txid for txid, addresses in spends.items() if txid not in known_spends]"
\* (and a variant without the test)
every_spend(txids, known_spends) == txids
unknown_spends(txids, known_spends) == txids \ known_spends

\* spends_poller_stop.wait(3.0), get_spends() and the requests not yet known.
SpendPoll ==
    /\ spender.pc = "wait"
    /\ IF spends_poller_stop
       THEN spender' = [spender EXCEPT !.pc = "exit"]
       ELSE LET new == Sorted(unknown_spends(DOMAIN spends, spender.known_spends))
            IN  spender' = [spender EXCEPT !.todo = new,
                              !.pc = IF new = <<>> THEN "wait" ELSE "decide"]
    /\ UNCHANGED <<stk_id, trader, bench_vars, idx_vars, vault, vaults, vaults_lock, stop_vars,
                   update_sigs_stop, poller, master, fetchers, acked_spends,
                   sigserver, spends, chain_vars>>

\* refuse_spend or accept_spend is called for the first request of the list.
SpendDecide ==
    /\ spender.pc = "decide"
    /\ LET txid == Head(spender.todo)
           answer == spend_decision(spends[txid].addresses)
           rest == Tail(spender.todo)
       IN  /\ spends' = [spends EXCEPT ![txid].answer = answer]
           /\ spender' =
                 IF answer = "accept" THEN [spender EXCEPT !.pc = "append"]
                 ELSE [spender EXCEPT !.todo = rest,
                         !.known_spends = @ \cup {txid},
                         !.pc = IF rest = <<>> THEN "wait" ELSE "decide"]
    /\ UNCHANGED <<stk_id, trader, bench_vars, idx_vars, vault, vaults, vaults_lock, stop_vars,
                   update_sigs_stop, poller, master, fetchers, acked_spends,
                   sigserver, chain_vars>>

\* "self.acked_spends.append(txid)" after accept_spend returned.
SpendAppend ==
    /\ spender.pc = "append"
    /\ LET txid == Head(spender.todo)
           rest == Tail(spender.todo)
       IN  /\ acked_spends' = acked_spends \cup {txid}
           /\ spender' = [spender EXCEPT !.todo = rest,
                            !.known_spends = @ \cup {txid},
                            !.pc = IF rest = <<>> THEN "wait" ELSE "decide"]
    /\ UNCHANGED <<stk_id, trader, bench_vars, idx_vars, vault, vaults, vaults_lock, stop_vars,
                   update_sigs_stop, poller, master, fetchers, sigserver,
                   spends, chain_vars>>

(***************************************************************************)
(* The caller's thread: getnewaddress and stop.                            *)
(***************************************************************************)
\* Calls of getnewaddress explored.
MaxNewAddresses == 502

getnewaddress ==
    /\ current_gen_index < MaxNewAddresses
    /\ handed_out' = handed_out \cup {current_gen_index}
    /\ current_gen_index' = current_gen_index + 1
    /\ vault_addresses' =
          IF current_gen_index + 1 > index_treshold - INDEX_GAP
          THEN update_watched_addresses(vault_addresses, current_index, max_index)
          ELSE vault_addresses
    /\ UNCHANGED <<stk_id, trader, bench_vars, current_index, max_index, index_treshold, vault,
                   vaults, vaults_lock, stop_vars, update_sigs_stop, poller,
                   master, fetchers, spend_vars, sigserver, chain_vars>>

\* stop(): "self.funds_poller_stop.set()"
StopSet ==
    /\ caller = "idle"
    /\ funds_poller_stop' = TRUE
    /\ caller' = "join"
    /\ UNCHANGED <<stk_id, trader, bench_vars, idx_vars, vault, vaults, vaults_lock,
                   spends_poller_stop, stopped, bitcoind_open, update_sigs_stop,
                   poller, master, fetchers, spend_vars, sigserver, chain_vars>>

\* "self.funds_poller.join()" returns.
StopJoin ==
    /\ caller = "join"
    /\ poller.pc \in {"exit", "crashed"}
    /\ caller' = "close"
    /\ UNCHANGED <<stk_id, trader, bench_vars, idx_vars, vault, vaults, vaults_lock,
                   funds_poller_stop, spends_poller_stop, stopped,
                   bitcoind_open, update_sigs_stop, poller, master, fetchers,
                   spend_vars, sigserver, chain_vars>>

\* "self.bitcoind.close()" and "self.stopped = True".
StopClose ==
    /\ caller = "close"
    /\ bitcoind_open' = FALSE
    /\ stopped' = TRUE
    /\ caller' = "done"
    /\ UNCHANGED <<stk_id, trader, bench_vars, idx_vars, vault, vaults, vaults_lock,
                   funds_poller_stop, spends_poller_stop, update_sigs_stop,
                   poller, master, fetchers, spend_vars, sigserver, chain_vars>>

(***************************************************************************)
(* The environment: deposits and the other stakeholders.                   *)
(***************************************************************************)
\* A funding transaction with one output per element of outs, a sequence
\* of derivation indexes, is broadcast.
FundingTx(outs) ==
    /\ funded < MaxTx
    /\ funded' = funded + 1
    /\ utxos' = utxos \cup {[txid |-> funded + 1, vout |-> o - 1,
                             addr |-> get_vault_address(outs[o])] : o \in 1..Len(outs)}
    /\ UNCHANGED <<stk_id, trader, bench_vars, idx_vars, vault, vaults, vaults_lock, stop_vars,
                   update_sigs_stop, poller, master, fetchers, spend_vars,
                   sigserver, sent, rejecting>>

\* The outpoints of the outputs of the funding transactions.
Deposits ==
    {<<vr.txid, vr.vout>> : vr \in {x \in Range(vault) : x.txid <= funded}}
    \cup {<<u.txid, u.vout>> : u \in {x \in utxos : x.addr[1] = "vault" /\ x.txid <= funded}}

\* The stakeholders of the set who publish signatures ending with flag for
\* the transactions kinds of the vault funded by outpoint op.
PeerPost(op, kinds, who, flag) ==
    /\ who # {}
    /\ stk_id \notin who
    /\ op \in Deposits
    /\ \A kind \in kinds, s \in who : <<<<op[1], op[2], kind>>, s>> \notin DOMAIN sigserver
    /\ sigserver' = [k \in DOMAIN sigserver \cup
                             {<<<<op[1], op[2], kind>>, s>> : kind \in kinds, s \in who} |->
                        IF k \in DOMAIN sigserver THEN sigserver[k] ELSE flag]
    /\ UNCHANGED <<stk_id, trader, bench_vars, idx_vars, vault, vaults, vaults_lock, stop_vars,
                   update_sigs_stop, poller, master, fetchers, spend_vars,
                   chain_vars>>

\* A stakeholder asks for the spend of the vault funded by txid to the given
\* set of addresses (request_spend on the sig-server).
RequestSpend(txid, addresses) ==
    /\ txid \in 1..funded
    /\ txid \notin DOMAIN spends
    /\ spends' = [k \in DOMAIN spends \cup {txid} |->
                     IF k = txid THEN [addresses |-> addresses, answer |-> None]
                     ELSE spends[k]]
    /\ UNCHANGED <<stk_id, trader, bench_vars, idx_vars, vault, vaults, vaults_lock, stop_vars,
                   update_sigs_stop, poller, master, fetchers, spender,
                   acked_spends, sigserver, chain_vars>>

\* The four signatures of a transaction kind are on the sig-server.
OnServer(op, kind) ==
    \A s \in Stakeholders : <<<<op[1], op[2], kind>>, s>> \in DOMAIN sigserver

TableOf(txkind) ==
    CASE txkind = TX_EMER -> EMER [] txkind = TX_UNVAULT -> UNVAULT
      [] txkind = TX_CANCEL -> CANCEL [] txkind = TX_UNEMER -> UNEMER

\* Another stakeholder broadcasts a pre-signed transaction of the vault
\* funded by outpoint op: it has the four signatures, and the output the
\* transaction spends is unspent.
PeerBroadcast(op, txkind) ==
    /\ op \in Deposits
    /\ OnServer(op, TableOf(txkind))
    /\ LET tx == [kind |-> txkind, txid |-> op[1], vout |-> op[2]]
       IN  /\ SpentBy(utxos, tx) # {}
           /\ utxos' = sendrawtransaction(utxos, tx)
    /\ UNCHANGED <<stk_id, trader, bench_vars, idx_vars, vault, vaults, vaults_lock, stop_vars,
                   update_sigs_stop, poller, master, fetchers, spend_vars,
                   sigserver, funded, sent, rejecting>>

(***************************************************************************)
(* The engine after __init__.                                              *)
(***************************************************************************)
OurSlots == {2}
Empty == [x \in {} |-> None]

\* The state __init__ leaves, whoever the stakeholder is.
Constructed ==
    /\ current_index = 0
    /\ current_gen_index = 0
    /\ max_index = INDEX_WINDOW
    /\ index_treshold = INDEX_WINDOW
    /\ vault_addresses = update_watched_addresses([lo |-> 0, hi |-> 0], 0, INDEX_WINDOW)
    /\ handed_out = {}
    /\ vault = <<>>
    /\ vaults = <<>>
    /\ vaults_lock = FREE
    /\ funds_poller_stop = FALSE
    /\ update_sigs_stop = FALSE
    /\ spends_poller_stop = FALSE
    /\ stopped = FALSE
    /\ bitcoind_open = TRUE
    /\ caller = "idle"
    /\ poller = [pc |-> "wait", current_utxos |-> {}, spent |-> <<>>,
                 todo |-> <<>>, new |-> <<>>, had_new |-> FALSE]
    /\ master = [gen |-> 0, pc |-> "unstarted", k |-> 0, threads |-> {}]
    /\ fetchers = Empty
    /\ spender = [pc |-> "wait", known_spends |-> {}, todo |-> <<>>]
    /\ acked_spends = {}
    /\ sigserver = Empty
    /\ spends = Empty
    /\ utxos = {}
    /\ funded = 0
    /\ sent = <<>>
    /\ rejecting = FALSE
    /\ height = 0
    /\ coins = {}
    /\ bench = IdleBench
    /\ verdict = "none"
    /\ trader = IdleTrader

Init == stk_id \in OurSlots /\ Constructed

Fetcher(t) ==
    \/ FetchWait(t)
    \/ FetchSlot(t)
    \/ FetchAccept(t)
    \/ FetchSecure(t)
    \/ FetchSend(t)
    \/ FetchSigned(t)

Others == Stakeholders \ {stk_id}
FirstDeposit == <<1, 0>>

(***************************************************************************)
(* SpecSig: the signature exchange.  A fresh engine sees MaxTx deposits,   *)
(* one per poll or several at once, so that the fetchers are restarted     *)
(* while they work.  The other stakeholders run the same engine: they      *)
(* publish their three revocation signatures of the first vault when they  *)
(* ingest it and their unvault signatures later.  Nobody signs for the     *)
(* later vaults, whose fetchers only spin; their steps are left out.       *)
(***************************************************************************)
Deposit == FundingTx(<<funded>>)
PeerIngest == PeerPost(FirstDeposit, IngestKinds, Others, ALL_ANYONECANPAY)
PeerUnvaultSig == PeerPost(FirstDeposit, {UNVAULT}, Others, SIGHASH_ALL)
SigThreads == \E t \in DOMAIN fetchers : vault[t[2]].txid = FirstDeposit[1] /\ Fetcher(t)

NextSig ==
    \/ Deposit
    \/ PeerIngest
    \/ PeerUnvaultSig
    \/ PollList
    \/ PollIngest
    \/ PollRestart
    \/ PollJoin
    \/ MasterSpawn
    \/ MasterJoin
    \/ SigThreads

SpecSig == Init /\ [][NextSig]_vars

\* Our own signature for transaction kind of vault v is on the sig-server.
Published(v, kind) == <<TxKey(vault[v], kind), stk_id>> \in DOMAIN sigserver

\* C1: for every vault, our unvault signature is on the sig-server only when
\* the emergency, cancel and unvault-emergency signature tables of the vault
\* hold all four signatures.
C1_UnvaultSigAfterAllTables ==
    \A v \in 1..Len(vault) :
        Published(v, UNVAULT) =>
            ~HasNone(vault[v], EMER) /\ ~HasNone(vault[v], CANCEL) /\ ~HasNone(vault[v], UNEMER)

\* C2: in every step, (1) our unvault signature is on the sig-server only
\* for a vault whose unvault_secure is set, (2) unvault_secure becomes set
\* only for a vault whose cancel and unvault-emergency tables have no empty
\* slot, and (3) the ingest of a vault publishes exactly our emergency, cancel
\* and unvault-emergency signatures of that vault.
C2_Step ==
    /\ \A v \in 1..Len(vault') :
          (<<TxKey(vault'[v], UNVAULT), stk_id>> \in DOMAIN sigserver') => vault'[v].unvault_secure
    /\ \A v \in 1..Len(vault) :
          (vault'[v].unvault_secure /\ ~vault[v].unvault_secure) =>
              RevocationsComplete(vault'[v])
    /\ Len(vault') > Len(vault) =>
          /\ ~vault'[Len(vault')].unvault_secure
          /\ DOMAIN sigserver' \ DOMAIN sigserver =
                {<<TxKey(vault'[Len(vault')], kind), stk_id>> : kind \in {EMER, CANCEL, UNEMER}}
C2_UnvaultSigGated == [][C2_Step]_vars

C2_Witness ==
    \E v \in 1..Len(vault) :
        Published(v, UNVAULT) /\ vault[v].unvault_secure /\ RevocationsComplete(vault[v])

\* C7: no signature fetcher of an older generation is running once the
\* update_sigs_thread of a new generation has been started.
C7_NoOldGeneration ==
    \A t \in DOMAIN fetchers : t[1] = master.gen

(***************************************************************************)
(* SpecSpend: the spend poller.  Stakeholders ask for spends of deposited  *)
(* vaults to any non-empty set of an acked address, a watched vault        *)
(* address (change) and an address the engine does not know.               *)
(***************************************************************************)
ACKED == <<"acked", 0>>
CHANGE == get_vault_address(0)
UNKNOWN == <<"unknown", 0>>
SpendAddresses == {ACKED, CHANGE, UNKNOWN}

Request == \E txid \in 1..MaxTx, addresses \in (SUBSET SpendAddresses) \ {{}} :
              RequestSpend(txid, addresses)

NextSpend ==
    \/ Deposit
    \/ Request
    \/ SpendPoll
    \/ SpendDecide
    \/ SpendAppend

SpecSpend == Init /\ [][NextSpend]_vars

\* C3: every spend request the spend poller has answered is accepted if and
\* only if every output address is a watched vault address or an acked
\* address and at least one output address is an acked address; otherwise
\* it is refused.
C3_SpendDecision ==
    \A txid \in DOMAIN spends :
        LET addresses == spends[txid].addresses
            all_known == \A a \in addresses : InList(a, vault_addresses) \/ a \in acked_addresses
            one_acked == \E a \in addresses : a \in acked_addresses
        IN  spends[txid].answer # None =>
               (spends[txid].answer = "accept" <=> (all_known /\ one_acked))

\* C20: the spend poller answers a spend request at most once: the request
\* it evaluates has no answer yet and is not among the requests it knows,
\* an answer given is never changed, and a request it knows is not put on
\* the list of a later poll.
C20_Step ==
    /\ (spender.pc = "decide" /\ spender' # spender) =>
          /\ spends[Head(spender.todo)].answer = None
          /\ Head(spender.todo) \notin spender.known_spends
    /\ \A txid \in DOMAIN spends :
          spends[txid].answer # None => spends'[txid].answer = spends[txid].answer
    /\ (spender.pc = "wait" /\ spender' # spender) =>
          Range(spender'.todo) \cap spender.known_spends = {}
C20_DecidedOnce == [][C20_Step]_vars

\* A later poll evaluates a new request and leaves out one answered before.
C20_Witness ==
    /\ spender.pc = "decide"
    /\ \E txid \in spender.known_spends :
          /\ spends[txid].answer # None
          /\ txid \notin Range(spender.todo)

(***************************************************************************)
(* SpecIdx: the derivation indexes.  The caller asks for new addresses     *)
(* while deposits (to addresses any stakeholder handed out) are ingested.  *)
(* The update_sigs_thread is not scheduled.                                *)
(***************************************************************************)
NextIdx ==
    \/ getnewaddress
    \/ Deposit
    \/ PollList
    \/ PollIngest
    \/ PollRestart
    \/ PollJoin

SpecIdx == Init /\ [][NextIdx]_vars

\* C9: in every reachable state current_index <= current_gen_index <=
\* max_index.
C9_IndexOrder ==
    current_index <= current_gen_index /\ current_gen_index <= max_index

\* C10: every address getnewaddress has returned has its index inside the
\* watched window (its address is one of self.vault_addresses).
C10_HandedOutWatched ==
    \A i \in handed_out : InList(get_vault_address(i), vault_addresses)

(***************************************************************************)
(* SpecFunds: one vault from deposit to unvault.  The other stakeholders   *)
(* sign the vault, may ask for a spend, and may broadcast the unvault, the *)
(* cancel or the emergency transaction once it has its four signatures.    *)
(***************************************************************************)
SingleDeposit == funded = 0 /\ FundingTx(<<0>>)
RequestFirst == \E addresses \in {{ACKED}, {ACKED, UNKNOWN}} :
                   RequestSpend(FirstDeposit[1], addresses)
PeerUnvault == PeerBroadcast(FirstDeposit, TX_UNVAULT)
PeerCancel == PeerBroadcast(FirstDeposit, TX_CANCEL)
PeerEmergency == PeerBroadcast(FirstDeposit, TX_EMER)

NextFunds ==
    \/ SingleDeposit
    \/ PeerIngest
    \/ PeerUnvaultSig
    \/ RequestFirst
    \/ PeerUnvault
    \/ PeerCancel
    \/ PeerEmergency
    \/ PollList
    \/ PollReconcile
    \/ PollRemove
    \/ PollIngest
    \/ PollRestart
    \/ PollJoin
    \/ MasterSpawn
    \/ MasterJoin
    \/ SigThreads
    \/ SpendPoll
    \/ SpendDecide
    \/ SpendAppend

SpecFunds == Init /\ [][NextFunds]_vars

\* The funding output of vault record vr is unspent.
Unspent(vr) ==
    \E u \in utxos : u.txid = vr.txid /\ u.vout = vr.vout /\ u.addr = vr.address

\* The step sends the cancel transaction of vault record vr.
SendsCancel(vr) ==
    /\ Len(sent') = Len(sent) + 1
    /\ LET tx == sent'[Len(sent')]
       IN  tx.kind = TX_CANCEL /\ tx.txid = vr.txid /\ tx.vout = vr.vout

\* C4: whenever the funds poller handles a spent vault whose funding output
\* is gone while no emergency output exists and the unvault output of the
\* vault is unspent, the step broadcasts the cancel transaction of the vault
\* if its txid is not in acked_spends, and broadcasts nothing if it is.
C4_Step ==
    (poller.pc = "reconcile" /\ poller' # poller) =>
        LET vr == vault[Head(poller.todo)]
        IN  (/\ ~Unspent(vr)
             /\ listunspent({emergency_address}) = {}
             /\ listunspent({unvault_address(vr.index)}) # {}) =>
                IF vr.txid \notin acked_spends THEN SendsCancel(vr) ELSE sent' = sent
C4_CancelUnlessAcked == [][C4_Step]_vars

C4_Witness ==
    \E k \in 1..Len(sent) :
        /\ sent[k].kind = TX_CANCEL
        /\ sent[k].txid \notin acked_spends
        /\ \E u \in utxos : u.txid = TxidOf(TX_CANCEL, sent[k].txid, sent[k].vout)

(***************************************************************************)
(* SpecEmer: the emergency.  Deposits arrive as transactions with one or   *)
(* two vault outputs; the other stakeholders sign each vault and any of    *)
(* them may broadcast the emergency transaction of a vault.  Of the        *)
(* signature fetchers only the emergency ones are scheduled.               *)
(***************************************************************************)
\* Vault outputs the deposits of SpecEmer create in total.
MaxOutputs == 2

DepositOutputs ==
    \E outs \in {<<0>>, <<0, 1>>} :
        /\ Cardinality(Deposits) + Len(outs) <= MaxOutputs
        /\ FundingTx(outs)
PeerIngestAny == \E op \in Deposits : PeerPost(op, IngestKinds, Others, ALL_ANYONECANPAY)
PeerEmergencyAny == \E op \in Deposits : PeerBroadcast(op, TX_EMER)
EmergencyFetcher(t) ==
    \/ FetchWait(t)
    \/ FetchSlot(t)
    \/ FetchAccept(t)
EmerThreads == \E t \in DOMAIN fetchers : t[3] = R_EMER /\ EmergencyFetcher(t)

NextEmer ==
    \/ DepositOutputs
    \/ PeerIngestAny
    \/ PeerEmergencyAny
    \/ PollList
    \/ PollReconcile
    \/ PollIngest
    \/ PollRestart
    \/ PollJoin
    \/ MasterSpawn
    \/ MasterJoin
    \/ EmerThreads

SpecEmer == Init /\ [][NextEmer]_vars

\* The transaction of the given kind of vault record vr is among txs.
SentFor(txs, kind, vr) ==
    \E k \in 1..Len(txs) :
        txs[k].kind = kind /\ txs[k].txid = vr.txid /\ txs[k].vout = vr.vout

\* C5: when the funds poller finds an emergency output while it handles a
\* spent vault, the step sends the emergency transaction of every vault of
\* self.vaults whose emergency table is complete and whose funding output
\* is still unspent, whatever the tables of the other vaults hold.
C5_Step ==
    (/\ poller.pc = "reconcile"
     /\ poller' # poller
     /\ listunspent({emergency_address}) # {}) =>
        \A v \in Range(vaults) :
            (~HasNone(vault[v], EMER) /\ Unspent(vault[v])) =>
                SentFor(sent', TX_EMER, vault[v])
C5_BestEffortEmergency == [][C5_Step]_vars

\* C6: every listunspent query of the funds poller puts in spent_vaults
\* each vault of self.vaults whose funding output txid:vout is no longer
\* unspent.
C6_Step ==
    (poller.pc = "wait" /\ poller' # poller /\ ~funds_poller_stop) =>
        \A v \in Range(vaults) :
            ~Unspent(vault[v]) => v \in Range(poller'.spent)
C6_SpentOutputDetected == [][C6_Step]_vars

\* The node knows the transaction already: its output exists.
KnownTx(U, tx) ==
    \E u \in U : u.txid = TxidOf(tx.kind, tx.txid, tx.vout)

\* The position in self.vaults of the vault a logged transaction belongs to.
PositionOf(tx) ==
    CHOOSE q \in 1..Len(vaults) :
        vault[vaults[q]].txid = tx.txid /\ vault[vaults[q]].vout = tx.vout

\* The logged transaction is of the given kind for vault record vr.
IsTxOf(tx, kind, vr) ==
    tx.kind = kind /\ tx.txid = vr.txid /\ tx.vout = vr.vout

\* C15: when the funds poller broadcasts a revocation the node already
\* knows, the error is swallowed and the poll goes on as after an accepted
\* broadcast: after the emergency transaction of a vault comes the
\* unvault-emergency transaction of that vault, after that one the
\* emergency transaction of the next vault of self.vaults, after the last
\* vault the poller sets stopped and returns (unless the table needed next
\* is incomplete, see C5); after a cancel transaction the loop over the
\* spent vaults goes on.
C15_Step ==
    (poller.pc = "reconcile" /\ poller' # poller) =>
        \A k \in (Len(sent) + 1)..Len(sent') :
            KnownTx(utxos, sent'[k]) =>
                LET tx == sent'[k]
                    p == PositionOf(tx)
                    vr == vault[vaults[p]]
                IN  CASE tx.kind = TX_EMER ->
                            \/ HasNone(vr, UNEMER)
                            \/ k < Len(sent') /\ IsTxOf(sent'[k + 1], TX_UNEMER, vr)
                      [] tx.kind = TX_UNEMER ->
                            IF p = Len(vaults)
                            THEN poller'.pc = "exit" /\ stopped'
                            ELSE \/ HasNone(vault[vaults[p + 1]], EMER)
                                 \/ k < Len(sent') /\
                                      IsTxOf(sent'[k + 1], TX_EMER, vault[vaults[p + 1]])
                      [] tx.kind = TX_CANCEL -> poller'.pc # "crashed"
                      [] OTHER -> FALSE
C15_KnownBroadcastSwallowed == [][C15_Step]_vars

\* The engine has broadcast the emergency transaction of a vault although
\* it was in the mempool already (it is the one that started the
\* emergency), has gone on with the unvault-emergency transaction of the
\* vault and has returned.
C15_Witness ==
    /\ poller.pc = "exit"
    /\ stopped
    /\ \E j \in 1..Len(sent) :
          /\ sent[j].kind = TX_EMER
          /\ KnownTx(utxos, sent[j])
          /\ j < Len(sent)
          /\ sent[j + 1].kind = TX_UNEMER
          /\ sent[j + 1].txid = sent[j].txid

(***************************************************************************)
(* SpecReject: one vault from deposit to unvault or emergency, with a node *)
(* whose mempool at some point stops taking transactions (its minimum fee  *)
(* went above what the pre-signed transactions pay, say) and answers each  *)
(* sendrawtransaction with a JSONRPCError from then on.                    *)
(***************************************************************************)
MempoolRejects ==
    /\ ~rejecting
    /\ rejecting' = TRUE
    /\ UNCHANGED <<stk_id, trader, bench_vars, idx_vars, vault, vaults, vaults_lock, stop_vars,
                   update_sigs_stop, poller, master, fetchers, spend_vars,
                   sigserver, utxos, funded, sent>>

NextReject ==
    \/ SingleDeposit
    \/ PeerIngest
    \/ PeerUnvaultSig
    \/ PeerUnvault
    \/ PeerEmergency
    \/ MempoolRejects
    \/ PollList
    \/ PollReconcile
    \/ PollRemove
    \/ PollIngest
    \/ PollRestart
    \/ PollJoin
    \/ MasterSpawn
    \/ MasterJoin
    \/ SigThreads

SpecReject == Init /\ [][NextReject]_vars

\* C14: when the funds poller broadcasts a revocation whose input is
\* unspent (the node does not know the transaction) and the node rejects it,
\* the same step makes a further attempt with a fee-bumped transaction of
\* the same kind for the same vault, and as the node keeps rejecting the
\* failure is raised instead of the poll going on as after a broadcast.
C14_Step ==
    (poller.pc = "reconcile" /\ poller' # poller /\ rejecting) =>
        \A k \in (Len(sent) + 1)..Len(sent') :
            LET tx == sent'[k]
            IN  (SpentBy(utxos, tx) # {} /\ ~KnownTx(utxos, tx)) =>
                   /\ \E j \in (k + 1)..Len(sent') :
                         /\ sent'[j].kind = tx.kind
                         /\ sent'[j].txid = tx.txid
                         /\ sent'[j].vout = tx.vout
                         /\ sent'[j].bumped
                   /\ poller'.pc = "crashed"
C14_RejectBumpedAndSurfaced == [][C14_Step]_vars

(***************************************************************************)
(* SpecIngest: the ingest of deposits.  Each funding transaction pays one  *)
(* or two watched vault addresses, which may have been used before; nobody *)
(* else signs, and the signature fetchers stay in their wait(3.0) until    *)
(* the stop event wakes them.                                              *)
(***************************************************************************)
SpinningFetcher(t) ==
    \/ FetchWait(t)
    \/ FetchSlot(t)
SpinThreads == \E t \in DOMAIN fetchers : SpinningFetcher(t)

DepositReuse ==
    \E outs \in {<<0>>, <<1>>} : FundingTx(outs)
WokenThreads == \E t \in DOMAIN fetchers : fetchers[t].woke /\ FetchWait(t)

NextIngest ==
    \/ DepositReuse
    \/ PollList
    \/ PollIngest
    \/ PollRestart
    \/ PollJoin
    \/ MasterSpawn
    \/ MasterJoin
    \/ WokenThreads

SpecIngest == Init /\ [][NextIngest]_vars

\* The outcome of one add_new_vault call of the funds poller when the
\* derivation indexes searched are lo..(max_index - 1): an address of that
\* range gets a vault record with exactly its index, appended to
\* self.vaults; any other address raises and leaves vault list alone.
IngestOutcome(lo) ==
    (poller.pc = "ingest" /\ poller' # poller) =>
        LET u == Head(poller.new)
        IN  IF u.addr[1] = "vault" /\ lo <= u.addr[2] /\ u.addr[2] < max_index
            THEN /\ Len(vault') = Len(vault) + 1
                 /\ vault'[Len(vault')].index = u.addr[2]
                 /\ vault'[Len(vault')].txid = u.txid
                 /\ vault'[Len(vault')].vout = u.vout
                 /\ vaults' = Append(vaults, Len(vault'))
            ELSE /\ vault' = vault
                 /\ vaults' = vaults
                 /\ poller'.pc = "crashed"

\* C11 (as stated): a new UTXO whose address has no derivation index in
\* [current_index, max_index) fails to be ingested and adds no vault record;
\* an address with an index in that range is ingested with that index.
C11_IngestWithinWindow == [][IngestOutcome(current_index)]_vars

\* C11 (amended): a new UTXO whose address has no derivation index in
\* [0, max_index) fails to be ingested and adds no vault record; an address
\* with an index in that range, below current_index included, is ingested
\* with exactly that index.
C11_IngestBelowMax == [][IngestOutcome(0)]_vars

\* A vault was ingested whose index was below current_index at that time
\* (current_index is the number of vaults ingested before).
C11_Witness ==
    \E v \in 1..Len(vault) : vault[v].index < v - 1 /\ v \in Range(vaults)

\* C16: a critical section of vaults_lock (a step that reads or mutates
\* the vault records or the vault list under the lock) makes no call of the
\* sig-server or of the node other than the get_signature of a fetcher
\* loop: it neither writes to the sig-server nor broadcasts.
C16_Step ==
    (vault' # vault \/ vaults' # vaults) =>
        (sigserver' = sigserver /\ utxos' = utxos /\ sent' = sent)
C16_NoCallUnderLock == [][C16_Step]_vars

\* The vaults the last query of the funds poller found spent are out of
\* self.vaults when the poller, after its loop over them, is at one of the
\* given places.
SpentRemovedAt(places) ==
    poller.pc \in places => \A v \in Range(poller.spent) : v \notin Range(vaults)

\* A step takes out of self.vaults only vaults whose funding output is
\* spent, and only the step that follows the loop over the spent vaults.
RemovesOnlySpent ==
    \A v \in Range(vaults) :
        v \notin Range(vaults') =>
            /\ ~Unspent(vault[v])
            /\ poller.pc = "remove"
            /\ poller.todo = <<>>
            /\ v \in Range(poller.spent)

\* C19 (as stated): a vault stays in self.vaults as long as its funding
\* output is unspent, and once the funds poller has handled it as spent and
\* is through with that poll (it waits for the next poll, ingests, restarts
\* the fetchers, or has returned), the vault is out of self.vaults.
C19_RemovedOnceReconciled ==
    /\ [][RemovesOnlySpent]_vars
    /\ []SpentRemovedAt({"wait", "ingest", "restart", "join", "exit"})

\* C19 (amended): the same, except that a poller that has returned (after
\* the emergency handling) has left self.vaults as it was.
C19_RemovedUnlessEmergency ==
    /\ [][RemovesOnlySpent]_vars
    /\ []SpentRemovedAt({"wait", "ingest", "restart", "join"})

\* A vault was unvaulted, handled by the funds poller and taken out of
\* self.vaults, and the poller is waiting for its next poll.
C19_Witness ==
    /\ poller.pc = "wait"
    /\ \E v \in Range(poller.spent) : v \notin Range(vaults) /\ ~Unspent(vault[v])

\* C18: the step that ingests a vault publishes for each of the emergency,
\* cancel and unvault-emergency transactions a signature of ours ending
\* with ALL|ANYONECANPAY and stores in our own slot of the table one ending
\* with SIGHASH_ALL; our unvault signature ends with SIGHASH_ALL and is
\* stored in our slot only, not published.
C18_Step ==
    Len(vault') > Len(vault) =>
        LET vr == vault'[Len(vault')]
        IN  /\ \A kind \in {EMER, CANCEL, UNEMER} :
                  /\ <<TxKey(vr, kind), stk_id>> \in DOMAIN sigserver'
                  /\ sigserver'[<<TxKey(vr, kind), stk_id>>] = ALL_ANYONECANPAY
                  /\ vr.sigs[kind][stk_id] = SIGHASH_ALL
            /\ vr.sigs[UNVAULT][stk_id] = SIGHASH_ALL
            /\ <<TxKey(vr, UNVAULT), stk_id>> \notin DOMAIN sigserver'
C18_SharedAndKeptFlags == [][C18_Step]_vars

(***************************************************************************)
(* SpecOrder: one funding transaction with two vault outputs.  The first   *)
(* vault goes through the whole signature exchange and may be unvaulted    *)
(* and cancelled; for the second one the other stakeholders publish their  *)
(* emergency signatures and may broadcast its emergency transaction.  Only *)
(* the fetchers of the first vault are scheduled, so the update_sigs_thread*)
(* stays in its join of the second vault's emergency fetcher.  No poll     *)
(* gets to the removal of spent vaults: the two outputs share their txid,  *)
(* and both are gone only after an emergency.                              *)
(***************************************************************************)
SecondDeposit == <<1, 1>>
FundingPair == funded = 0 /\ FundingTx(<<0, 1>>)
PeerEmergencySig == PeerPost(SecondDeposit, {EMER}, Others, ALL_ANYONECANPAY)
PeerEmergencySecond == PeerBroadcast(SecondDeposit, TX_EMER)
FirstThreads ==
    \E t \in DOMAIN fetchers :
        <<vault[t[2]].txid, vault[t[2]].vout>> = FirstDeposit /\ Fetcher(t)

NextOrder ==
    \/ FundingPair
    \/ PeerIngest
    \/ PeerUnvaultSig
    \/ PeerUnvault
    \/ PeerCancel
    \/ PeerEmergencySig
    \/ PeerEmergencySecond
    \/ PollList
    \/ PollReconcile
    \/ PollIngest
    \/ PollRestart
    \/ PollJoin
    \/ MasterSpawn
    \/ FirstThreads

SpecOrder == Init /\ [][NextOrder]_vars

\* The transactions a step hands to sendrawtransaction.
NewlySent == {sent'[k] : k \in (Len(sent) + 1)..Len(sent')}

\* C17: for a vault whose funding output is gone the funds poller looks at
\* the emergency address first, then at the unvault address of the vault,
\* then at its cancel address: with an emergency output it sends emergency
\* transactions only and leaves its loop, even when the unvault output of
\* the vault is there; otherwise with the unvault output it sends nothing
\* but the cancel transaction of the vault, and nothing if the spend is
\* acknowledged; otherwise with the cancel output it sends nothing and goes
\* on.
C17_Step ==
    (poller.pc = "reconcile" /\ poller' # poller) =>
        LET vr == vault[Head(poller.todo)]
            em == listunspent({emergency_address}) # {}
            un == listunspent({unvault_address(vr.index)}) # {}
            ca == listunspent({get_vault_address(vr.index)}) # {}
        IN  IF em
            THEN /\ \A tx \in NewlySent : tx.kind \in {TX_EMER, TX_UNEMER}
                 /\ poller'.pc \in {"exit", "crashed"}
            ELSE IF un
            THEN /\ \A tx \in NewlySent : IsTxOf(tx, TX_CANCEL, vr)
                 /\ vr.txid \in acked_spends => NewlySent = {}
                 /\ poller'.pc \in {"reconcile", "remove", "crashed"}
            ELSE ca =>
                 /\ NewlySent = {}
                 /\ poller'.pc \in {"reconcile", "remove"}
PollListFails ==
    /\ poller.pc = "wait"
    /\ ~funds_poller_stop
    /\ poller' = [poller EXCEPT !.pc = "crashed"]
    /\ UNCHANGED <<stk_id, trader, bench_vars, idx_vars, vault, vaults, vaults_lock, stop_vars,
                   update_sigs_stop, master, fetchers, spend_vars, sigserver,
                   chain_vars>>

\* The signatures add_new_vault has sent when its n-th send_signature call
\* is the last one that succeeded.
SendOrder == <<EMER, CANCEL, UNEMER>>
partial_signatures(store, vr, n) ==
    [k \in DOMAIN store \cup {<<TxKey(vr, SendOrder[j]), stk_id>> : j \in 1..n} |->
        IF \E j \in 1..n : k = <<TxKey(vr, SendOrder[j]), stk_id>>
        THEN SharedSig(k[1][3])
        ELSE store[k]]

\* A call inside add_new_vault raises (get_feerate, tx_size, importaddress
\* or one of the send_signature calls): the vault is not appended, and
\* vaults_lock, acquired before the call, is never released.
PollIngestFails ==
    /\ poller.pc = "ingest"
    /\ vaults_lock = FREE
    /\ LET u == Head(poller.new)
           index == guess_index(u.addr, max_index)
       IN  /\ index # {}
           /\ \E n \in 0..2 :
                 sigserver' = partial_signatures(sigserver,
                                 new_vault(u, CHOOSE i \in index : TRUE), n)
    /\ vaults_lock' = POLLER
    /\ poller' = [poller EXCEPT !.pc = "crashed"]
    /\ UNCHANGED <<stk_id, trader, bench_vars, idx_vars, vault, vaults, stop_vars, update_sigs_stop,
                   master, fetchers, spend_vars, chain_vars>>

\* "spends = self.sigserver.get_spends()" raises.
SpendPollFails ==
    /\ spender.pc = "wait"
    /\ ~spends_poller_stop
    /\ spender' = [spender EXCEPT !.pc = "crashed"]
    /\ UNCHANGED <<stk_id, trader, bench_vars, idx_vars, vault, vaults, vaults_lock, stop_vars,
                   update_sigs_stop, poller, master, fetchers, acked_spends,
                   sigserver, spends, chain_vars>>

(***************************************************************************)
(* SpecRpc: deposits are ingested and a spend is requested while any call  *)
(* of the node or of the sig-server at the top of a poll or inside an      *)
(* ingest may fail.                                                        *)
(***************************************************************************)
NextRpc ==
    \/ Deposit
    \/ RequestFirst
    \/ PollList
    \/ PollListFails
    \/ PollIngest
    \/ PollIngestFails
    \/ PollRestart
    \/ PollJoin
    \/ MasterSpawn
    \/ MasterJoin
    \/ WokenThreads
    \/ SpendPoll
    \/ SpendPollFails
    \/ SpendDecide
    \/ SpendAppend

SpecRpc == Init /\ [][NextRpc]_vars

\* C12: a failing call inside a poll iteration aborts only that iteration:
\* neither poller thread ends on it (both stay in their polling loops), and
\* the funds poller does not keep vaults_lock, so that a later poll can
\* ingest the UTXO whose ingest failed.
C12_PollersSurviveFailures ==
    /\ poller.pc # "crashed"
    /\ spender.pc # "crashed"
    /\ vaults_lock # POLLER

(***************************************************************************)
(* SpecFlag: one vault whose other stakeholders publish revocation         *)
(* signatures, all at once with the right flag byte or one by one with     *)
(* SIGHASH_ALL as flag byte.                                               *)
(***************************************************************************)
PeerWrongFlag ==
    \E kind \in IngestKinds, s \in Others : PeerPost(FirstDeposit, {kind}, {s}, SIGHASH_ALL)

NextFlag ==
    \/ SingleDeposit
    \/ PeerIngest
    \/ PeerWrongFlag
    \/ PollList
    \/ PollIngest
    \/ PollRestart
    \/ PollJoin
    \/ MasterSpawn
    \/ MasterJoin
    \/ SigThreads

SpecFlag == Init /\ [][NextFlag]_vars

\* C13: when a fetcher gets for a slot of the emergency, cancel or
\* unvault-emergency table a signature that does not end with
\* ALL|ANYONECANPAY, the slot stays empty, vaults_lock is released and the
\* fetcher thread lives on to ask for that slot again.
C13_Step ==
    \A t \in DOMAIN fetchers :
        LET kind == fetchers[t].kind
            i == fetchers[t].i
        IN  (/\ fetchers[t].pc = "fetch"
             /\ kind \in IngestKinds
             /\ get_signature(TxKey(vault[t[2]], kind), i) \notin {None, ALL_ANYONECANPAY}
             /\ (t \notin DOMAIN fetchers' \/ fetchers'[t] # fetchers[t])) =>
                /\ vault'[t[2]].sigs[kind][i] = None
                /\ vaults_lock' = FREE
                /\ t \in DOMAIN fetchers'
C13_WrongFlagDroppedAndRetried == [][C13_Step]_vars

(***************************************************************************)
(* SpecStop: shutdown.  The engine holds one vault nobody else has signed  *)
(* yet and receives spend requests; the caller calls stop().               *)
(***************************************************************************)
NextStop ==
    \/ SingleDeposit
    \/ RequestFirst
    \/ PollList
    \/ PollIngest
    \/ PollRestart
    \/ PollJoin
    \/ MasterSpawn
    \/ SpinThreads
    \/ SpendPoll
    \/ SpendDecide
    \/ SpendAppend
    \/ StopSet
    \/ StopJoin
    \/ StopClose

SpecStop == Init /\ [][NextStop]_vars

\* C8: (1) the node RPC handle is closed only after the funds poller has
\* terminated and stop() has joined it, and (2) once stop() has returned, a
\* spend poller that wakes from its wait terminates, and so does a
\* signature fetcher that wakes from its wait.
C8_JoinedBeforeClose ==
    ~bitcoind_open => (poller.pc \in {"exit", "crashed"} /\ caller = "done")
C8_WakeTerminates ==
    caller = "done" =>
        /\ (spender.pc = "wait" /\ spender' # spender) => spender'.pc = "exit"
        /\ \A t \in DOMAIN fetchers :
              (fetchers[t].pc = "wait" /\ t \in DOMAIN fetchers' /\ fetchers'[t] # fetchers[t])
                  => FALSE
C8_StopTerminatesAll == []C8_JoinedBeforeClose /\ [][C8_WakeTerminates]_vars

(***************************************************************************)
(* SpecTx: the transactions themselves.  One deposit is made to the vault  *)
(* of the four stakeholders; each pre-signed transaction and the spend is  *)
(* built with create_*, signed slot by slot with sign_*, assembled with    *)
(* form_* (or by complete_spend) and handed to the node, as the tests of   *)
(* tests/test_transactions.py do, while blocks are generated.  Every       *)
(* transaction pays FEE; the deposit is worth MaxHops fees, which bounds   *)
(* the chain of transactions that can follow it.                           *)
(***************************************************************************)
\* The fees a transaction of the tests leaves (amount - 500).
FEE == 500
\* The sats of the input creates_add_input appends.
TOPUP == 5000
\* The deposit, in fees.
MaxHops == 3

TX_DEEP == "emergency_spend_tx"
Revocations == {TX_EMER, TX_CANCEL, TX_UNEMER}

\* bitcoind.pay_to(addr, amount) of send_vault_tx: "This makes a transaction
\* with only one vout".
funding_tx == [NoTx EXCEPT !.vout = <<vault_txout(stk_pubkeys, MaxHops * FEE)>>]
\* bitcoind.rpc.sendtoaddress(str(address), amount / COIN) of creates_add_input
scratch_key == <<"scratch", 0>>
first_stage_tx == [NoTx EXCEPT !.vout = <<CTxOut(TOPUP, P2WPKH(scratch_key))>>]

LockedBy(script) == {c \in coins : c.txout.scriptPubKey = P2WSH(script)}
VaultCoins == LockedBy(vault_script(stk_pubkeys))
UnvaultCoins ==
    LockedBy(unvault_script(stk_pubkeys[1], stk_pubkeys[2], stk_pubkeys[3], stk_pubkeys[4],
                            serv_pubkey))
EmergencyCoins == LockedBy(emergency_script(emer_pubkeys))

\* The coin the transaction on the bench spends with its first input.
PrevCoin == CoinOf(coins, bench.tx.vin[1].prevout)

\* The address maps of the spends: one output, or two.
SpendMaps(value) ==
    {<< <<(<<"addr", 1>>), value>> >>}
    \cup (IF value >= 1 THEN {<< <<(<<"addr", 1>>), value - 1>>, <<(<<"addr", 2>>), 1>> >>} ELSE {})

send_vault_tx ==
    /\ coins = {}
    /\ bench.stage = "idle"
    /\ coins' = {Coin(funding_tx, 1, 0)}
    /\ UNCHANGED <<height, bench, verdict>>
    /\ UNCHANGED <<stk_id, trader, idx_vars, vault, vaults, vaults_lock, stop_vars, update_sigs_stop,
                   poller, master, fetchers, spend_vars, sigserver, chain_vars>>

\* create_*: the template spending coin c and paying its value minus FEE.
Template(kind, c, addresses) ==
    LET txid == c.outpoint.hash
        vout == c.outpoint.n
        value == c.txout.nValue - FEE
    IN  CASE kind = TX_UNVAULT -> create_unvault_tx(txid, vout, stk_pubkeys, serv_pubkey, value)
          [] kind = TX_EMER -> create_emergency_vault_tx(txid, vout, value, emer_pubkeys)
          [] kind = TX_CANCEL -> create_cancel_tx(txid, vout, stk_pubkeys, value)
          [] kind = TX_UNEMER -> create_emer_unvault_tx(txid, vout, emer_pubkeys, value)
          [] kind = TX_SPEND -> create_spend_tx(txid, vout, addresses)
          \* test_emergency_txout:
          \*   txin = CTxIn(COutPoint(lx(txid), 0), nSequence=4464)
          \*   tx = CMutableTransaction([txin], [txout], nVersion=2)
          [] kind = TX_DEEP ->
                 CMutableTransaction(<<CTxIn(COutPoint(txid, vout), nSequence(4464))>>,
                                     <<CTxOut(value, to_scriptPubKey(<<"addr", 1>>))>>, 2)

CoinsFor(kind) ==
    CASE kind \in {TX_UNVAULT, TX_EMER} -> VaultCoins
      [] kind \in {TX_CANCEL, TX_UNEMER, TX_SPEND} -> UnvaultCoins
      [] kind = TX_DEEP -> EmergencyCoins

Create(kind) ==
    /\ bench.stage \in {"idle", "sent"}
    /\ \E c \in CoinsFor(kind) :
         /\ c.txout.nValue >= FEE
         /\ \E addresses \in SpendMaps(c.txout.nValue - FEE) :
              /\ kind # TX_SPEND => Len(addresses) = 1
              /\ bench' = [stage |-> "created", kind |-> kind,
                           tx |-> Template(kind, c, addresses), sigs |-> NoSigs]
    /\ verdict' = "none"
    /\ UNCHANGED <<height, coins>>
    /\ UNCHANGED <<stk_id, trader, idx_vars, vault, vaults, vaults_lock, stop_vars, update_sigs_stop,
                   poller, master, fetchers, spend_vars, sigserver, chain_vars>>

\* sign_*: the signature of the stakeholder of slot s (of the cosigning
\* server for slot COSIGNER) for the transaction on the bench.
Signature(kind, tx, s, prev_value, sign_all) ==
    LET privkey == IF s = COSIGNER THEN serv_pubkey ELSE stk_pubkeys[s]
    IN  CASE kind = TX_UNVAULT -> signed_unvault_tx(tx, privkey, stk_pubkeys, prev_value)
          [] kind = TX_EMER ->
                 signed_emergency_vault_tx(tx, privkey, stk_pubkeys, prev_value, sign_all)
          \* sign_cancel_tx and sign_emer_unvault_tx return sign_unvault_revault(...)
          [] kind \in {TX_CANCEL, TX_UNEMER} ->
                 signed_unvault_revault(tx, privkey, stk_pubkeys, serv_pubkey, prev_value, sign_all)
          [] kind = TX_SPEND -> sign_spend_tx(tx, privkey, stk_pubkeys, serv_pubkey, prev_value)
          \* test_emergency_txout: k.sign(tx_hash) + bytes([SIGHASH_ALL])
          [] kind = TX_DEEP ->
                 CKey_sign(emer_pubkeys[s],
                           SignatureHash(emergency_script(emer_pubkeys), tx, 0, SIGHASH_ALL, prev_value),
                           SIGHASH_ALL)

Sign(s, sign_all) ==
    /\ bench.stage = "created"
    /\ IsEmpty(bench.sigs[s])
    /\ s = COSIGNER => bench.kind = TX_SPEND
    /\ sign_all => bench.kind \in Revocations
    /\ bench' = [bench EXCEPT !.sigs[s] =
                    Signature(bench.kind, bench.tx, s, PrevCoin.txout.nValue, sign_all)]
    /\ UNCHANGED <<height, coins, verdict>>
    /\ UNCHANGED <<stk_id, trader, idx_vars, vault, vaults, vaults_lock, stop_vars, update_sigs_stop,
                   poller, master, fetchers, spend_vars, sigserver, chain_vars>>

\* The list of four signatures given to form_*: the four stakeholders', or
\* for a spend those of slots 1 to 3 and the cosigning server's.
SlotSigs(kind, sigs) ==
    IF kind = TX_SPEND THEN <<sigs[1], sigs[2], sigs[3], sigs[COSIGNER]>>
    ELSE <<sigs[1], sigs[2], sigs[3], sigs[4]>>

Formed(kind, tx, sigs) ==
    \* form_unvault_tx and form_emergency_vault_tx return form_spend_vault_txout(..)
    CASE kind \in {TX_UNVAULT, TX_EMER} -> form_spend_vault_txout(tx, stk_pubkeys, sigs)
      \* form_cancel_tx and form_emer_unvault_tx return form_unvault_spend(..)
      [] kind \in {TX_CANCEL, TX_UNEMER} -> form_unvault_spend(tx, sigs, stk_pubkeys, serv_pubkey)
      [] kind = TX_SPEND -> form_spend_tx(tx, stk_pubkeys, serv_pubkey, sigs)
      \* test_emergency_txout: [bytes(0), *sigs, emergency_script(pubkeys)]
      [] kind = TX_DEEP ->
             [tx EXCEPT !.wit = << <<Num(0)>> \o sigs \o
                                   <<<<"script", emergency_script(emer_pubkeys)>>>> >>]

\* form_*, once every signer of the list has signed (for a spend: the
\* cosigning server, the slots that did not sign being empty byte arrays).
Form ==
    /\ bench.stage = "created"
    /\ LET sigs == SlotSigs(bench.kind, bench.sigs)
       IN  /\ IF bench.kind = TX_SPEND THEN ~IsEmpty(sigs[4])
              ELSE \A i \in 1..4 : ~IsEmpty(sigs[i])
           /\ bench' = [bench EXCEPT !.stage = "formed",
                                     !.tx = Formed(bench.kind, bench.tx, sigs)]
    /\ UNCHANGED <<height, coins, verdict>>
    /\ UNCHANGED <<stk_id, trader, idx_vars, vault, vaults, vaults_lock, stop_vars, update_sigs_stop,
                   poller, master, fetchers, spend_vars, sigserver, chain_vars>>

\* complete_spend: "all_sigs = [bytes(0)] * 3 + [cosig]", then our
\* signature and the peer's are stored at the position of their pubkeys in
\* vault["pubkeys"] (a position of Python is a slot minus one).
all_sigs(our_pos, peer_pos, our_sig, peer_sig, cosig) ==
    LET base == <<Num(0), Num(0), Num(0), cosig>>
        ours == [base EXCEPT ![our_pos + 1] = our_sig]
    IN  [ours EXCEPT ![peer_pos + 1] = peer_sig]

\* complete_spend(vault, peer_pubkey, peer_sig, addresses) by the engine,
\* peer_sig being the signature of the stakeholder of slot peer.
complete_spend(peer) ==
    /\ bench.stage = "created"
    /\ bench.kind = TX_SPEND
    /\ \A s \in 1..COSIGNER : IsEmpty(bench.sigs[s])
    /\ LET value == PrevCoin.txout.nValue
           our_sig == Signature(TX_SPEND, bench.tx, stk_id, value, FALSE)
           peer_sig == Signature(TX_SPEND, bench.tx, peer, value, FALSE)
           cosig == Signature(TX_SPEND, bench.tx, COSIGNER, value, FALSE)
           sigs == all_sigs(stk_id - 1, peer - 1, our_sig, peer_sig, cosig)
       IN  bench' = [bench EXCEPT !.stage = "formed",
                                  !.sigs = [[[NoSigs EXCEPT ![stk_id] = our_sig]
                                                     EXCEPT ![peer] = peer_sig]
                                                     EXCEPT ![COSIGNER] = cosig],
                                  !.tx = form_spend_tx(bench.tx, stk_pubkeys, serv_pubkey, sigs)]
    /\ UNCHANGED <<height, coins, verdict>>
    /\ UNCHANGED <<stk_id, trader, idx_vars, vault, vaults, vaults_lock, stop_vars, update_sigs_stop,
                   poller, master, fetchers, spend_vars, sigserver, chain_vars>>

\* creates_add_input: a wallet coin of TOPUP sats is created for a scratch
\* key, appended as a second input and signed with SIGHASH_ALL.
add_input(tx) ==
    LET txin == CTxIn(COutPoint(GetTxid(first_stage_tx), 0), SEQUENCE_RBF)
        with_input == [tx EXCEPT !.vin = Append(tx.vin, txin)]
        tx_hash == SignatureHash(P2WPKH(scratch_key).script, with_input, 1, SIGHASH_ALL, TOPUP)
        sig == CKey_sign(scratch_key, tx_hash, SIGHASH_ALL)
    IN  [with_input EXCEPT !.wit = Append(tx.wit, <<sig, scratch_key>>)]

creates_add_input ==
    /\ bench.stage = "formed"
    /\ bench.kind \in Revocations
    /\ Len(bench.tx.vin) = 1
    /\ \A c \in coins : c.outpoint.hash # GetTxid(first_stage_tx)
    /\ coins' = coins \cup {Coin(first_stage_tx, 1, 0)}
    /\ bench' = [bench EXCEPT !.tx = add_input(bench.tx)]
    /\ verdict' = "none"
    /\ UNCHANGED height
    /\ UNCHANGED <<stk_id, trader, idx_vars, vault, vaults, vaults_lock, stop_vars, update_sigs_stop,
                   poller, master, fetchers, spend_vars, sigserver, chain_vars>>

\* bitcoind.send_tx(tx): the node answers; an accepted transaction spends
\* its coins and its outputs are in the mempool.
send_tx ==
    /\ bench.stage = "formed"
    /\ LET tx == bench.tx
           answer == testmempoolaccept(tx, coins, height)
       IN  /\ verdict' = answer
           /\ IF answer = ACCEPTED
              THEN /\ coins' = {c \in coins : \A i \in 1..Len(tx.vin) : c.outpoint # tx.vin[i].prevout}
                               \cup {Coin(tx, n, 0) : n \in 1..Len(tx.vout)}
                   /\ bench' = [bench EXCEPT !.stage = "sent"]
              ELSE UNCHANGED <<coins, bench>>
    /\ UNCHANGED height
    /\ UNCHANGED <<stk_id, trader, idx_vars, vault, vaults, vaults_lock, stop_vars, update_sigs_stop,
                   poller, master, fetchers, spend_vars, sigserver, chain_vars>>

\* bitcoind.generate_block(1): the transactions of the mempool are
\* confirmed.  Blocks are generated while a transaction waits in the
\* mempool or after the node refused one as not final.
generate_block ==
    /\ verdict = NON_BIP68_FINAL \/ \E c \in coins : c.height = 0
    /\ height' = height + 1
    /\ coins' = {IF c.height = 0 THEN [c EXCEPT !.height = height + 1] ELSE c : c \in coins}
    /\ verdict' = IF verdict = NON_BIP68_FINAL THEN "none" ELSE verdict
    /\ UNCHANGED bench
    /\ UNCHANGED <<stk_id, trader, idx_vars, vault, vaults, vaults_lock, stop_vars, update_sigs_stop,
                   poller, master, fetchers, spend_vars, sigserver, chain_vars>>

CreateTx == \E kind \in {TX_UNVAULT, TX_EMER, TX_CANCEL, TX_UNEMER, TX_SPEND, TX_DEEP} : Create(kind)
SignTx == \E s \in 1..COSIGNER, sign_all \in BOOLEAN : Sign(s, sign_all)
CompleteSpend == \E peer \in Stakeholders : complete_spend(peer)

NextTx ==
    \/ send_vault_tx
    \/ CreateTx
    \/ SignTx
    \/ Form
    \/ CompleteSpend
    \/ creates_add_input
    \/ send_tx
    \/ generate_block

SpecTx == Init /\ [][NextTx]_vars

\* A step of send_tx that got an answer from the node.
Sends == bench.stage = "formed" /\ verdict = "none" /\ verdict' # "none"

\* The witness of the spend on the bench is [cosig, sig3, sig2, sig1,
\* script] with the signature of the cosigning server, the signatures of
\* exactly the stakeholders of the set pair, each by the key of its slot,
\* and an empty byte array for the other slot of 1 to 3.
Cosigned(pair) ==
    /\ bench.kind = TX_SPEND
    /\ Len(bench.tx.wit) = 1
    /\ LET wit == bench.tx.wit[1]
       IN  /\ Len(wit) = 5
           /\ wit[1][1] = "sig" /\ wit[1][2].key = serv_pubkey
           /\ \A s \in 1..3 :
                IF s \in pair THEN wit[5 - s][1] = "sig" /\ wit[5 - s][2].key = stk_pubkeys[s]
                ELSE IsEmpty(wit[5 - s])
Pairs == {{1, 2}, {2, 3}, {1, 3}}

\* C21: a spend of an unvault output that carries the signature of the
\* cosigning server and those of exactly two of the slots 1 to 3, the third
\* being an empty byte array, is refused as non-BIP68-final while the
\* unvault output has fewer than 6 confirmations and accepted from 6 on.
C21_Step ==
    (Sends /\ \E pair \in Pairs : Cosigned(pair)) =>
        verdict' = IF Confirmations(PrevCoin, height) < 6 THEN NON_BIP68_FINAL ELSE ACCEPTED
C21_TimelockedSpend == [][C21_Step]_vars

\* The spend signed by the slots 2 and 3 was refused with 5 confirmations
\* and is accepted with 6.
C21_Witness ==
    /\ bench.stage = "sent" /\ verdict = ACCEPTED
    /\ Cosigned({2, 3})
    /\ \E c \in coins : c.outpoint.hash = GetTxid(bench.tx) /\ c.height = 0
    /\ \E c \in coins : c.txout.scriptPubKey.type = "address" /\ height = 7

\* The first input of the transaction on the bench spends an unvault output
\* and its witness is [sig4, sig3, sig2, sig1, script], each a valid
\* signature by the stakeholder of its slot: no signature of the cosigning
\* server, no empty element.
UnvaultScript ==
    unvault_script(stk_pubkeys[1], stk_pubkeys[2], stk_pubkeys[3], stk_pubkeys[4], serv_pubkey)
FourStakeholders ==
    /\ \E c \in UnvaultCoins : c.outpoint = bench.tx.vin[1].prevout
    /\ Len(bench.tx.wit) >= 1
    /\ LET wit == bench.tx.wit[1]
       IN  /\ Len(wit) = 5
           /\ \A s \in Stakeholders :
                CheckSig(wit[5 - s], stk_pubkeys[s], UnvaultScript, bench.tx, 0,
                         PrevCoin.txout.nValue)

\* C22: a transaction spending an unvault output with valid signatures of
\* the four stakeholders pushed in reverse slot order is accepted by the
\* node whatever the number of confirmations of the unvault output, and
\* without a signature of the cosigning server.
C22_Step == (Sends /\ FourStakeholders) => verdict' = ACCEPTED
C22_ImmediateRevault == [][C22_Step]_vars

\* A cancel transaction was accepted while no block had been generated since
\* the deposit: the unvault output it spends had no confirmation.
C22_Witness ==
    /\ bench.stage = "sent" /\ verdict = ACCEPTED
    /\ bench.kind = TX_CANCEL
    /\ height = 0
    /\ Len(bench.tx.wit[1]) = 5
    /\ \A s \in Stakeholders : bench.tx.wit[1][5 - s][1] = "sig"
                                /\ bench.tx.wit[1][5 - s][2].key = stk_pubkeys[s]
    /\ \E c \in VaultCoins : c.outpoint.hash = GetTxid(bench.tx) /\ c.height = 0


\* The first input of the transaction on the bench spends an emergency
\* output with the witness [empty, sig1, sig2, sig3, sig4, script], each a
\* valid signature by the offline key of its slot.
DeepCold ==
    /\ \E c \in EmergencyCoins : c.outpoint = bench.tx.vin[1].prevout
    /\ Len(bench.tx.wit) = 1
    /\ LET wit == bench.tx.wit[1]
       IN  /\ Len(wit) = 6
           /\ \A s \in Stakeholders :
                CheckSig(wit[1 + s], emer_pubkeys[s], emergency_script(emer_pubkeys), bench.tx, 0,
                         PrevCoin.txout.nValue)

\* C23: the transaction spending an emergency output with the four
\* signatures of the offline keys is refused by the node as non-BIP68-final
\* while the output has fewer than 4464 confirmations, and accepted from
\* 4464 confirmations on.
C23_Step ==
    (Sends /\ DeepCold) =>
        verdict' = IF Confirmations(PrevCoin, height) < 4464 THEN NON_BIP68_FINAL ELSE ACCEPTED
C23_EmergencyTimelock == [][C23_Step]_vars

\* The spend of the emergency output is accepted at height 4464, the output
\* having been confirmed by the first block: every block but that one was
\* generated after a refusal.
C23_Witness ==
    /\ bench.stage = "sent" /\ verdict = ACCEPTED
    /\ bench.kind = TX_DEEP
    /\ height = 4464
    /\ \E c \in coins : c.outpoint.hash = GetTxid(bench.tx) /\ c.height = 0


\* The transaction on the bench is a template of one of the five kinds that
\* form_* has assembled from the signatures on the bench.
Assembled ==
    /\ bench.stage = "formed"
    /\ bench.kind \in {TX_UNVAULT, TX_EMER, TX_CANCEL, TX_UNEMER, TX_SPEND}
    /\ Len(bench.tx.vin) = 1
\* The stakeholders of slots 1 to 3 who signed the transaction on the bench.
Traders == {s \in 1..3 : ~IsEmpty(bench.sigs[s])}
ValidSpend == VerifyScript(bench.tx, 0, PrevCoin.txout)

\* C24 (as stated): for each of the five kinds, the template signed by each
\* of the four stakeholders (and by the cosigning server for a spend) and
\* assembled by form_* with the signatures in slot order is a valid spend of
\* its prevout.
C24_RoundTrip ==
    (/\ Assembled
     /\ \A s \in Stakeholders : ~IsEmpty(bench.sigs[s])
     /\ bench.kind = TX_SPEND => ~IsEmpty(bench.sigs[COSIGNER]))
    => ValidSpend

\* C24 (amended): the unvault, emergency, cancel and unvault-emergency
\* templates signed by each of the four stakeholders, and the spend template
\* signed by the cosigning server and by exactly two of the stakeholders of
\* slots 1 to 3 (the third signature being an empty byte array), assembled
\* by form_* with the signatures in slot order, are valid spends of their
\* prevout.
C24_RoundTripTwoOfThree ==
    (/\ Assembled
     /\ IF bench.kind = TX_SPEND
        THEN ~IsEmpty(bench.sigs[COSIGNER]) /\ Cardinality(Traders) = 2
        ELSE \A s \in Stakeholders : ~IsEmpty(bench.sigs[s]))
    => ValidSpend

\* A spend signed by the stakeholders of slots 1 and 3 and by the cosigning
\* server is assembled, with an empty byte array for slot 2, and is valid.
C24_Witness ==
    /\ Assembled /\ ValidSpend
    /\ bench.kind = TX_SPEND
    /\ Traders = {1, 3}
    /\ ~IsEmpty(bench.sigs[COSIGNER])
    /\ IsEmpty(bench.tx.wit[1][3])


\* The signatures of the witness of input 0 of the transaction on the bench.
InputSigs == {i \in 1..Len(bench.tx.wit[1]) : bench.tx.wit[1][i][1] = "sig"}
\* A revocation fully signed with four ALL|ANYONECANPAY signatures.
AnyoneCanPay ==
    /\ bench.stage = "formed"
    /\ bench.kind \in Revocations
    /\ Cardinality(InputSigs) = 4
    /\ \A i \in InputSigs : bench.tx.wit[1][i][2].hashtype = ALL_ANYONECANPAY
\* A step of creates_add_input.
Bumps == bench.stage = "formed" /\ Len(bench.tx.vin) = 1 /\ Len(bench'.tx.vin) = 2

\* C25: appending a funded second input signed with SIGHASH_ALL to a
\* revocation fully signed with four ALL|ANYONECANPAY signatures leaves
\* the witness of input 0 valid, strictly increases the fee, and the node
\* accepts the bumped transaction.
C25_Step ==
    (Bumps /\ AnyoneCanPay) =>
        /\ bench'.tx.wit[1] = bench.tx.wit[1]
        /\ VerifyScript(bench'.tx, 0, PrevCoin.txout)
        /\ tx_fees(bench'.tx, coins') > tx_fees(bench.tx, coins)
        /\ testmempoolaccept(bench'.tx, coins', height') = ACCEPTED
C25_BumpKeepsValid == [][C25_Step]_vars

\* A bumped unvault-emergency transaction whose four signatures on input 0
\* are ALL|ANYONECANPAY was sent and accepted.
C25_Witness ==
    /\ bench.stage = "sent" /\ verdict = ACCEPTED
    /\ bench.kind = TX_UNEMER
    /\ Len(bench.tx.vin) = 2
    /\ Cardinality(InputSigs) = 4
    /\ \A i \in InputSigs : bench.tx.wit[1][i][2].hashtype = ALL_ANYONECANPAY
    /\ \E c \in EmergencyCoins : c.outpoint.hash = GetTxid(bench.tx)


\* C26: a template of an unvault, emergency, cancel or unvault-emergency
\* transaction has one input, one output and nVersion 2, the nSequence of
\* its input being 0xFFFFFFFF for the unvault and 0xFFFFFFFE for the three
\* revocations; the template of a spend has one input of nSequence 6 and
\* one output per entry of the address map, in the order of the map.
C26_TemplateShapes ==
    (bench.stage = "created" /\ bench.kind # TX_DEEP) =>
        LET tx == bench.tx
        IN  /\ Len(tx.vin) = 1
            /\ IF bench.kind = TX_SPEND
               THEN /\ tx.vin[1].nSequence = <<0, 6>>
                    /\ \E addresses \in SpendMaps(PrevCoin.txout.nValue - FEE) :
                         /\ Len(tx.vout) = Len(addresses)
                         /\ \A i \in 1..Len(addresses) :
                              /\ tx.vout[i].nValue = addresses[i][2]
                              /\ tx.vout[i].scriptPubKey.script = <<Push(addresses[i][1])>>
               ELSE /\ Len(tx.vout) = 1
                    /\ tx.nVersion = 2
                    /\ tx.vin[1].nSequence[1] = 1
                    /\ tx.vin[1].nSequence[2] =
                           IF bench.kind = TX_UNVAULT THEN 2147483647 ELSE 2147483646

\* The template of a spend to a map of two addresses has been created, with
\* its two outputs.
C26_Witness ==
    /\ bench.stage = "created"
    /\ bench.kind = TX_SPEND
    /\ Len(bench.tx.vin) = 1 /\ Len(bench.tx.vout) = 2
    /\ bench.tx.vout[2].nValue = 1


\* get_signed_emergency_tx, get_signed_cancel_tx and
\* get_signed_unvault_emergency_tx, by the kind of their transaction.
get_signed(kind, vr, low) ==
    CASE kind = TX_EMER -> get_signed_emergency_tx(vr, low)
      [] kind = TX_CANCEL -> get_signed_cancel_tx(vr, low)
      [] kind = TX_UNEMER -> get_signed_unvault_emergency_tx(vr, low)

\* C27: for each vault of the list and each revocation, get_signed_*
\* returns None while the table has an empty slot.  Otherwise, when the
\* pre-signed fee-rate is below the target, it returns the bumped
\* transaction assembled from the table with the own-slot signature
\* replaced by an ALL|ANYONECANPAY one; and when it is not below, the
\* transaction assembled from the stored table, whose own-slot signature is
\* the SIGHASH_ALL one.
C27_GetSigned ==
    \A v \in Range(vaults), low \in BOOLEAN, kind \in Revocations :
        LET vr == vault[v]
            tbl == vr.sigs[TableOf(kind)]
            r == get_signed(kind, vr, low)
        IN  IF \E s \in Stakeholders : tbl[s] = None THEN r = {}
            ELSE \E tx \in r :
                   /\ r = {tx}
                   /\ tx.bumped = low
                   /\ \A s \in Stakeholders \ {stk_id} : tx.sigs[s] = tbl[s]
                   /\ tx.sigs[stk_id] = IF low THEN ALL_ANYONECANPAY ELSE SIGHASH_ALL
                   /\ ~low => tx.sigs = tbl


\* C28: the templates of both emergency kinds are built for the fee-rate of
\* key "emergency" and those of the cancel and of the unvault for the
\* fee-rate of key "cancel"; and the target a transaction was compared to
\* before the poller broadcast it is the one of key "emergency" for both
\* emergency kinds and of key "cancel" for the cancel.
C28_FeerateKeys ==
    /\ \A v \in Range(vaults) :
          /\ vault[v].feerate[EMER] = "emergency" /\ vault[v].feerate[UNEMER] = "emergency"
          /\ vault[v].feerate[CANCEL] = "cancel" /\ vault[v].feerate[UNVAULT] = "cancel"
    /\ \A k \in 1..Len(sent) :
          /\ sent[k].kind \in {TX_EMER, TX_UNEMER} => sent[k].minimal_feerate = "emergency"
          /\ sent[k].kind = TX_CANCEL => sent[k].minimal_feerate = "cancel"


\* Two witness elements are the same element.
SameElement(a, b) == a[1] = b[1] /\ a[2] = b[2]
\* The witness wit is the list of elements, in its order.
IsWitness(wit, elements) ==
    /\ Len(wit) = Len(elements)
    /\ \A i \in 1..Len(elements) : SameElement(wit[i], elements[i])
\* A step of form_*: the signatures on the bench are assembled.
Forms == bench.stage = "created" /\ bench'.stage = "formed" /\ bench'.sigs = bench.sigs

\* C29: form_* gives a transaction spending a vault output the witness
\* [empty, sig1, sig2, sig3, sig4, vault script], and a transaction spending
\* an unvault output its signatures in reverse slot order followed by the
\* unvault script, without a leading empty element: [sig4, sig3, sig2, sig1,
\* script] for the cancel and the unvault-emergency, [cosigner signature,
\* sig3, sig2, sig1, script] for the spend.
C29_Step ==
    (Forms /\ bench.kind # TX_DEEP) =>
        LET sigs == bench.sigs
            wit == bench'.tx.wit
        IN  /\ Len(wit) = 1
            /\ CASE bench.kind \in {TX_UNVAULT, TX_EMER} ->
                        IsWitness(wit[1], <<Num(0), sigs[1], sigs[2], sigs[3], sigs[4],
                                           <<"script", vault_script(stk_pubkeys)>> >>)
                 [] bench.kind \in {TX_CANCEL, TX_UNEMER} ->
                        IsWitness(wit[1], <<sigs[4], sigs[3], sigs[2], sigs[1],
                                           <<"script", UnvaultScript>> >>)
                 [] bench.kind = TX_SPEND ->
                        IsWitness(wit[1], <<sigs[COSIGNER], sigs[3], sigs[2], sigs[1],
                                           <<"script", UnvaultScript>> >>)
C29_WitnessOrder == [][C29_Step]_vars

\* A cancel transaction has been assembled: the signature of slot 4 comes
\* first and the signature of slot 1 last, before the script.
C29_Witness ==
    /\ bench.stage = "formed"
    /\ bench.kind = TX_CANCEL
    /\ Len(bench.tx.vin) = 1
    /\ Len(bench.tx.wit[1]) = 5
    /\ bench.tx.wit[1][1][1] = "sig" /\ bench.tx.wit[1][1][2].key = stk_pubkeys[4]
    /\ bench.tx.wit[1][4][1] = "sig" /\ bench.tx.wit[1][4][2].key = stk_pubkeys[1]
    /\ bench.tx.wit[1][5][1] = "script"


(***************************************************************************)
(* complete_spend by the stakeholder of any slot: the deposit is unvaulted *)
(* and spent.                                                              *)
(***************************************************************************)
InitComplete == stk_id \in Stakeholders /\ Constructed
CreateSpendPath == \E kind \in {TX_UNVAULT, TX_SPEND} : Create(kind)

NextComplete ==
    \/ send_vault_tx
    \/ CreateSpendPath
    \/ SignTx
    \/ Form
    \/ CompleteSpend
    \/ send_tx
    \/ generate_block

SpecComplete == InitComplete /\ [][NextComplete]_vars

\* A step of complete_spend: it makes the signatures and assembles them.
Completes == bench.stage = "created" /\ bench'.stage = "formed" /\ bench'.sigs # bench.sigs

\* C30: whatever the slot of the stakeholder calling complete_spend and
\* whatever the slot of the peer, the witness complete_spend assembles is
\* (reversed) the cosigning server's signature in the fourth position,
\* exactly two stakeholder signatures in their own slots among 1 to 3, and
\* an empty byte array in the remaining slot.
C30_Step == Completes => (\E pair \in Pairs : Cosigned(pair))'
C30_CompleteSpend == [][C30_Step]_vars


(***************************************************************************)
(* The user's thread: initiate_spend, accept_spend and complete_spend.     *)
(*   wait      inside wait_for_unvault_tx                                  *)
(*   sign      the flag was read true, sign_spend_tx is next               *)
(*   cosign    complete_spend has our signature, get_cosignature is next   *)
(*   request   the transaction is assembled, request_spend is next         *)
(*   poll      the loop around sigserver.spend_accepted                    *)
(*   returned  the function returned our_sig, or (spend_tx, res)           *)
(***************************************************************************)
INITIATE == "initiate_spend"
ACCEPT == "accept_spend"
COMPLETE == "complete_spend"

\* vault["unvault_tx"].vout[0].nValue: a deposit of MaxHops * FEE whose
\* unvault transaction pays FEE.
unvault_value == (MaxHops - 1) * FEE
\* The address maps of the spends the user asks for: to an acknowledged
\* address, and to an address nobody knows.
TraderMaps == {<< <<ACKED, unvault_value - FEE>> >>, << <<UNKNOWN, unvault_value - FEE>> >>}

\* initiate_spend(vault, addresses) and complete_spend(vault, peer_pubkey,
\* peer_sig, addresses) with an entry of self.vaults: both start with
\* create_sign_spend_tx, which starts with wait_for_unvault_tx.
TraderCall(op, v, peer, addresses) ==
    /\ trader.pc = "idle"
    /\ op \in {INITIATE, COMPLETE}
    /\ v \in Range(vaults)
    /\ op = INITIATE => peer = 0
    /\ op = COMPLETE => peer \in Stakeholders
    /\ trader' = [IdleTrader EXCEPT !.pc = "wait", !.op = op, !.v = v, !.peer = peer,
                                    !.addresses = addresses]
    /\ UNCHANGED <<stk_id, bench_vars, idx_vars, vault, vaults, vaults_lock, stop_vars,
                   update_sigs_stop, poller, master, fetchers, spend_vars, sigserver,
                   chain_vars>>

\* accept_spend(vault_txid, addresses): "for vault in self.vaults: if
\* vault["txid"] == vault_txid: return self.create_sign_spend_tx(..)", and
\* "return None" after the loop.
accept_spend(vault_txid, addresses) ==
    /\ trader.pc = "idle"
    /\ LET found == {k \in 1..Len(vaults) : vault[vaults[k]].txid = vault_txid}
       IN  IF found = {}
           THEN trader' = [IdleTrader EXCEPT !.pc = "returned", !.op = ACCEPT,
                                             !.txid = vault_txid, !.addresses = addresses]
           ELSE LET k == CHOOSE x \in found : \A y \in found : x <= y
                IN  trader' = [IdleTrader EXCEPT !.pc = "wait", !.op = ACCEPT, !.v = vaults[k],
                                                 !.txid = vault_txid, !.addresses = addresses]
    /\ UNCHANGED <<stk_id, bench_vars, idx_vars, vault, vaults, vaults_lock, stop_vars,
                   update_sigs_stop, poller, master, fetchers, spend_vars, sigserver,
                   chain_vars>>

\* One iteration of wait_for_unvault_tx: acquire, read the flag, release,
\* and sleep(0.5) when it is false.
\* (a variant that does not look at the flag)
wait_for_unvault_tx_unsigned ==
    /\ trader.pc = "wait"
    /\ vaults_lock = FREE
    /\ trader' = [trader EXCEPT !.pc = "sign"]
    /\ UNCHANGED <<stk_id, bench_vars, idx_vars, vault, vaults, vaults_lock, stop_vars,
                   update_sigs_stop, poller, master, fetchers, spend_vars, sigserver,
                   chain_vars>>
wait_for_unvault_tx ==
    /\ trader.pc = "wait"
    /\ vaults_lock = FREE
    /\ trader' = IF vault[trader.v].unvault_signed THEN [trader EXCEPT !.pc = "sign"]
                 ELSE trader
    /\ UNCHANGED <<stk_id, bench_vars, idx_vars, vault, vaults, vaults_lock, stop_vars,
                   update_sigs_stop, poller, master, fetchers, spend_vars, sigserver,
                   chain_vars>>

\* The spend transaction of the vault the user's thread works on.
TraderSpendTx ==
    create_spend_tx(TxidOf(TX_UNVAULT, vault[trader.v].txid, vault[trader.v].vout), 0,
                    trader.addresses)

\* create_sign_spend_tx after the wait: our signature.  initiate_spend and
\* accept_spend return it, complete_spend goes on.
create_sign_spend_tx ==
    /\ trader.pc = "sign"
    /\ trader' = [trader EXCEPT
                    !.our_sig = sign_spend_tx(TraderSpendTx, stk_pubkeys[stk_id], stk_pubkeys,
                                              serv_pubkey, unvault_value),
                    !.pc = IF trader.op = COMPLETE THEN "cosign" ELSE "returned"]
    /\ UNCHANGED <<stk_id, bench_vars, idx_vars, vault, vaults, vaults_lock, stop_vars,
                   update_sigs_stop, poller, master, fetchers, spend_vars, sigserver,
                   chain_vars>>

\* complete_spend: cosigner.get_cosignature(..), then the transaction is
\* assembled from our signature, the peer's and the cosigning server's.
get_cosignature ==
    /\ trader.pc = "cosign"
    /\ LET cosig == sign_spend_tx(TraderSpendTx, serv_pubkey, stk_pubkeys, serv_pubkey,
                                  unvault_value)
           peer_sig == sign_spend_tx(TraderSpendTx, stk_pubkeys[trader.peer], stk_pubkeys,
                                     serv_pubkey, unvault_value)
           sigs == all_sigs(stk_id - 1, trader.peer - 1, trader.our_sig, peer_sig, cosig)
       IN  trader' = [trader EXCEPT
                        !.cosig = cosig,
                        !.spend_tx = form_spend_tx(TraderSpendTx, stk_pubkeys, serv_pubkey, sigs),
                        !.pc = "request"]
    /\ UNCHANGED <<stk_id, bench_vars, idx_vars, vault, vaults, vaults_lock, stop_vars,
                   update_sigs_stop, poller, master, fetchers, spend_vars, sigserver,
                   chain_vars>>

\* complete_spend: "self.sigserver.request_spend(vault["txid"], addresses)"
request_spend ==
    /\ trader.pc = "request"
    /\ LET txid == vault[trader.v].txid
           addresses == {trader.addresses[i][1] : i \in 1..Len(trader.addresses)}
       IN  /\ txid \notin DOMAIN spends
           /\ spends' = [k \in DOMAIN spends \cup {txid} |->
                            IF k = txid THEN [addresses |-> addresses, answer |-> None]
                            ELSE spends[k]]
    /\ trader' = [trader EXCEPT !.pc = "poll"]
    /\ UNCHANGED <<stk_id, bench_vars, idx_vars, vault, vaults, vaults_lock, stop_vars,
                   update_sigs_stop, poller, master, fetchers, spender, acked_spends,
                   sigserver, chain_vars>>

\* complete_spend: one iteration of "while True: res =
\* self.sigserver.spend_accepted(vault["txid"]) / if res is not None: break /
\* time.sleep(0.5)", and the return after the loop.
\* (a variant that leaves the loop with whatever the server answered)
spend_accepted_once ==
    /\ trader.pc = "poll"
    /\ trader' = [trader EXCEPT !.res = spends[vault[trader.v].txid].answer,
                                !.pc = "returned"]
    /\ UNCHANGED <<stk_id, bench_vars, idx_vars, vault, vaults, vaults_lock, stop_vars,
                   update_sigs_stop, poller, master, fetchers, spend_vars, sigserver,
                   chain_vars>>
spend_accepted ==
    /\ trader.pc = "poll"
    /\ LET res == spends[vault[trader.v].txid].answer
       IN  trader' = IF res # None THEN [trader EXCEPT !.res = res, !.pc = "returned"]
                     ELSE trader
    /\ UNCHANGED <<stk_id, bench_vars, idx_vars, vault, vaults, vaults_lock, stop_vars,
                   update_sigs_stop, poller, master, fetchers, spend_vars, sigserver,
                   chain_vars>>


(***************************************************************************)
(* SpecTrade: a spend by the user.  One deposit is signed by everybody     *)
(* while the user calls initiate_spend, accept_spend or complete_spend;    *)
(* the spend poller of the engine answers the request.                     *)
(***************************************************************************)
TraderCalls ==
    \E op \in {INITIATE, COMPLETE}, v \in Range(vaults), peer \in 0..NStakeholders,
       addresses \in TraderMaps : TraderCall(op, v, peer, addresses)
TraderAccepts ==
    \E vault_txid \in 1..MaxTx, addresses \in TraderMaps : accept_spend(vault_txid, addresses)

NextTrade ==
    \/ SingleDeposit
    \/ PeerIngest
    \/ PeerUnvaultSig
    \/ PollList
    \/ PollIngest
    \/ PollRestart
    \/ PollJoin
    \/ MasterSpawn
    \/ MasterJoin
    \/ SigThreads
    \/ SpendPoll
    \/ SpendDecide
    \/ SpendAppend
    \/ TraderCalls
    \/ TraderAccepts
    \/ wait_for_unvault_tx
    \/ create_sign_spend_tx
    \/ get_cosignature
    \/ request_spend
    \/ spend_accepted

SpecTrade == Init /\ [][NextTrade]_vars

\* C31: the user's thread holds a spend signature only for a vault whose
\* unvault_signed flag is true and whose unvault table is full; while the
\* flag is false a thread inside wait_for_unvault_tx stays there; and
\* accept_spend for a txid of no vault of the list returns None, without a
\* signature.
C31_Step ==
    /\ ~IsEmpty(trader'.our_sig) =>
          /\ vault'[trader'.v].unvault_signed
          /\ ~HasNone(vault'[trader'.v], UNVAULT)
    /\ (trader.pc = "wait" /\ ~vault[trader.v].unvault_signed) => trader' = trader
    /\ (/\ trader.pc = "idle" /\ trader'.op = ACCEPT
        /\ \A k \in 1..Len(vaults) : vault[vaults[k]].txid # trader'.txid) =>
          trader'.pc = "returned" /\ IsEmpty(trader'.our_sig)
C31_SpendSigGated == [][C31_Step]_vars

\* accept_spend returned our signature for the spend of the vault, whose
\* unvault transaction everybody has signed.
C31_Witness ==
    /\ trader.pc = "returned"
    /\ trader.op = ACCEPT
    /\ trader.our_sig[1] = "sig"
    /\ trader.our_sig[2].key = stk_pubkeys[stk_id]
    /\ vault[trader.v].unvault_signed


\* C32: complete_spend asks the cosigning server first, posts the spend
\* request next, polls for the decision last: the request is posted by a
\* thread that holds the cosignature and the assembled transaction, a poll
\* that reads no decision leaves the thread in the loop, and the call returns
\* only with the decision the server holds, next to the same transaction.
C32_Step ==
    /\ (trader.pc = "request" /\ trader'.pc = "poll") =>
          /\ ~IsEmpty(trader.cosig)
          /\ trader.spend_tx # NoTx
          /\ vault[trader.v].txid \notin DOMAIN spends
          /\ vault[trader.v].txid \in DOMAIN spends'
    /\ (trader.pc = "poll" /\ spends[vault[trader.v].txid].answer = None) => trader' = trader
    /\ (trader'.op = COMPLETE /\ trader.pc # "returned" /\ trader'.pc = "returned") =>
          /\ trader.pc = "poll"
          /\ spends[vault[trader.v].txid].answer # None
          /\ trader'.res = spends[vault[trader.v].txid].answer
          /\ trader'.spend_tx = trader.spend_tx
          /\ trader'.spend_tx # NoTx
    /\ (trader'.op = COMPLETE /\ trader'.pc \in {"request", "poll", "returned"}) =>
          ~IsEmpty(trader'.cosig)
C32_CosignRequestPoll == [][C32_Step]_vars

\* complete_spend returned the transaction with the refusal of the
\* stakeholders' spend poller.
C32_Witness ==
    /\ trader.op = COMPLETE
    /\ trader.pc = "returned"
    /\ trader.res = "refuse"
    /\ spends[vault[trader.v].txid].answer = "refuse"
    /\ trader.spend_tx # NoTx
    /\ ~IsEmpty(trader.cosig)


(***************************************************************************)
(* SpecLive: the signature exchange under fair scheduling.  The four       *)
(* stakeholders run the engine on the first deposit: the three others      *)
(* publish their revocation signatures when they ingest it, and their      *)
(* unvault signatures once the sig-server holds every cancel and           *)
(* unvault-emergency signature of the vault, as update_unvault_revocations *)
(* does.  Further deposits, which only this engine has seen so far, arrive *)
(* once the update_all_signatures thread of the first generation has       *)
(* returned, while the revocation or the unvault signatures of the first   *)
(* vault are being fetched; they restart the fetchers.  Every thread that  *)
(* can take a step eventually takes one and every request is answered;     *)
(* the deposits are the only steps that need not happen.                   *)
(***************************************************************************)
\* The sig-server holds the signatures of the four stakeholders for the
\* transaction of the kind of the vault funded by op.
Holds(store, op, kind) ==
    \A s \in Stakeholders : <<<<op[1], op[2], kind>>, s>> \in DOMAIN store

\* The tables of another stakeholder's record of the vault funded by op,
\* once its fetchers have asked the sig-server for every slot.
PeerView(op) ==
    [sigs |-> [kind \in Kinds |->
                 [s \in Stakeholders |-> get_signature(<<op[1], op[2], kind>>, s)]]]

PeerCommit ==
    /\ RevocationsComplete(PeerView(FirstDeposit))
    /\ PeerUnvaultSig
FurtherDeposit == funded >= 1 /\ master.pc = "dead" /\ Deposit
AnyThread == \E t \in DOMAIN fetchers : Fetcher(t)

NextLive ==
    \/ SingleDeposit
    \/ FurtherDeposit
    \/ PeerIngest
    \/ PeerCommit
    \/ PollList
    \/ PollIngest
    \/ PollRestart
    \/ PollJoin
    \/ MasterSpawn
    \/ MasterJoin
    \/ AnyThread

\* The threads of the engine: the funds poller, the update_sigs_thread, and
\* the fetchers there can be (one generation per restart).
FundsPoller == PollList \/ PollIngest \/ PollRestart \/ PollJoin
UpdateSigsThread == MasterSpawn \/ MasterJoin
ThreadIds == (1..MaxTx) \X (1..MaxTx) \X {R_EMER, R_REVOC, R_UNVAULT}

Fairness ==
    /\ WF_vars(PeerIngest)
    /\ WF_vars(PeerCommit)
    /\ WF_vars(FundsPoller)
    /\ WF_vars(UpdateSigsThread)
    /\ \A t \in ThreadIds : WF_vars(Fetcher(t))

SpecLive == Init /\ [][NextLive]_vars /\ Fairness

PeerRevoke == \E s \in Others : PeerPost(FirstDeposit, IngestKinds, {s}, ALL_ANYONECANPAY)
PeerCommitOne ==
    \E s \in Others :
        /\ RevocationsComplete(PeerView(FirstDeposit))
        /\ PeerPost(FirstDeposit, {UNVAULT}, {s}, SIGHASH_ALL)

NextCommit ==
    \/ SingleDeposit
    \/ FurtherDeposit
    \/ PeerRevoke
    \/ PeerCommitOne
    \/ PollList
    \/ PollIngest
    \/ PollRestart
    \/ PollJoin
    \/ MasterSpawn
    \/ MasterJoin
    \/ AnyThread

SpecCommit == Init /\ [][NextCommit]_vars

\* C34: when the sig-server holds the four unvault signatures of a vault,
\* it holds the four cancel signatures and the four unvault-emergency
\* signatures of that vault.
C34_UnvaultRevocable ==
    \A op \in Deposits :
        Holds(sigserver, op, UNVAULT) =>
            Holds(sigserver, op, CANCEL) /\ Holds(sigserver, op, UNEMER)

\* The four unvault signatures of the vault are on the sig-server, ours
\* among them.
C34_Witness ==
    /\ Holds(sigserver, FirstDeposit, UNVAULT)
    /\ Len(vault) = 1
    /\ Published(1, UNVAULT)


\* C35: in every state and for every vault, emergency_signed only with a
\* full emergency table, unvault_secure only with full cancel and
\* unvault-emergency tables, unvault_signed only with a full unvault table
\* and with unvault_secure; and no step resets one of the three flags.
C35_Step ==
    /\ \A v \in 1..Len(vault') :
          /\ vault'[v].emergency_signed => ~HasNone(vault'[v], EMER)
          /\ vault'[v].unvault_secure =>
                ~HasNone(vault'[v], CANCEL) /\ ~HasNone(vault'[v], UNEMER)
          /\ vault'[v].unvault_signed =>
                ~HasNone(vault'[v], UNVAULT) /\ vault'[v].unvault_secure
    /\ \A v \in 1..Len(vault) :
          /\ vault[v].emergency_signed => vault'[v].emergency_signed
          /\ vault[v].unvault_secure => vault'[v].unvault_secure
          /\ vault[v].unvault_signed => vault'[v].unvault_signed
C35_FlagsAndTables == [][C35_Step]_vars

\* The three flags of the first vault are set; the fetchers have been
\* restarted in between.
C35_Witness ==
    /\ Len(vault) >= 1
    /\ vault[1].emergency_signed
    /\ vault[1].unvault_secure
    /\ vault[1].unvault_signed
    /\ master.gen >= 2


\* C36: no step changes a slot of a signature table that holds a
\* signature, neither to another value nor back to empty, whichever threads
\* are interleaved and whatever the sig-server answers.
C36_Step ==
    \A v \in 1..Len(vault), kind \in Kinds, s \in Stakeholders :
        vault[v].sigs[kind][s] # None =>
            vault'[v].sigs[kind][s] = vault[v].sigs[kind][s]
C37_LockReleased ==
    \/ vaults_lock = FREE
    \/ vaults_lock \in DOMAIN fetchers
    \/ vaults_lock = POLLER /\ poller.pc \notin {"crashed", "exit"}


\* C38: the funds poller never sends the cancel transaction of a vault
\* whose spend the spend poller of this engine has accepted on the
\* sig-server.
C38_Step ==
    \A v \in 1..Len(vault) :
        SendsCancel(vault[v]) =>
            ~(/\ vault[v].txid \in DOMAIN spends
              /\ spends[vault[v].txid].answer = "accept")
C38_AcceptedNeverCancelled == [][C38_Step]_vars


(***************************************************************************)
(* SpecChain: SpecFunds with two more events on the chain.  The traders    *)
(* broadcast the spend transaction, which spends the unvault output once   *)
(* its relative timelock has passed; and a deposit the engine ingested     *)
(* unconfirmed (listunspent is called with minconf=0) is replaced by a     *)
(* conflicting transaction.  Any number of events fits between two polls.  *)
(***************************************************************************)
SpendBroadcast ==
    /\ \E u \in utxos :
          /\ u.txid = TxidOf(TX_UNVAULT, FirstDeposit[1], FirstDeposit[2])
          /\ u.addr[1] = "unvault"
          /\ utxos' = (utxos \ {u}) \cup
                         {[txid |-> TxidOf(TX_SPEND, FirstDeposit[1], FirstDeposit[2]),
                           vout |-> 0, addr |-> ACKED]}
    /\ UNCHANGED <<stk_id, trader, bench_vars, idx_vars, vault, vaults, vaults_lock, stop_vars,
                   update_sigs_stop, poller, master, fetchers, spend_vars,
                   sigserver, funded, sent, rejecting>>

DepositReplaced ==
    /\ \E u \in utxos :
          /\ <<u.txid, u.vout>> = FirstDeposit
          /\ u.addr[1] = "vault"
          /\ utxos' = utxos \ {u}
    /\ UNCHANGED <<stk_id, trader, bench_vars, idx_vars, vault, vaults, vaults_lock, stop_vars,
                   update_sigs_stop, poller, master, fetchers, spend_vars,
                   sigserver, funded, sent, rejecting>>

NextChain ==
    \/ NextFunds
    \/ SpendBroadcast
    \/ DepositReplaced

SpecChain == Init /\ [][NextChain]_vars

\* C39: whenever the funds poller handles a vault of its list whose funding
\* output is gone, with no output at the emergency address and none at the
\* unvault address of the vault, there is an unspent output at the address
\* the cancel transaction of the vault pays to: the assertion of the loop
\* over the spent vaults never fails.
C39_Step ==
    (poller.pc = "reconcile" /\ poller' # poller) =>
        LET vr == vault[Head(poller.todo)]
        IN  (/\ ~Unspent(vr)
             /\ listunspent({emergency_address}) = {}
             /\ listunspent({unvault_address(vr.index)}) = {}) =>
                /\ listunspent({get_vault_address(vr.index)}) # {}
                /\ poller'.pc # "crashed"
C39_ReconcileAssertion == [][C39_Step]_vars


\* C40: in every state the address of every derivation index of
\* [current_index, max_index) is one of self.vault_addresses, and so is every
\* address getnewaddress has returned.
C40_WindowWatched ==
    /\ \A i \in current_index..(max_index - 1) :
          InList(get_vault_address(i), vault_addresses)
    /\ \A i \in handed_out : InList(get_vault_address(i), vault_addresses)


====
